---- MODULE Spec2Model ----
(***************************************************************************)
(* Technoir Transmission Generator: the generation pipeline of App.tsx     *)
(* (handleGenerate, Interactive and Full_Gen), the stage functions of      *)
(* services/gemini.ts, the lead handlers of the viewer and the local       *)
(* persistence of services/db.ts, as one state machine.                    *)
(*                                                                         *)
(* Every `await` of a pending request is a point where the handler is      *)
(* suspended: an action is the settling of a request together with the     *)
(* handler code that runs up to the next such await.  The outcome of a     *)
(* request is chosen from the outcomes the service can produce.            *)
(***************************************************************************)
EXTENDS Integers, Sequences, FiniteSets, TLC

\* ------------------------------------------------------------- bounds
\* handleGenerate is started at most MaxRuns times.
MaxRuns == 1
\* The roster stage returns at most MaxLeads leads.
MaxLeads == 2
\* handleUpdateLead is invoked at most MaxEdits times.
MaxEdits == 1
\* At most MaxPendingLoads un-awaited loadLocalArchives calls are pending.
MaxPendingLoads == 1
\* The stage functions are called directly at most MaxCalls times.
MaxCalls == 2
\* handleInspectLead and handleRegenClick start at most MaxOps generations.
MaxOps == 1
\* The dossier's stage functions are called on their own at most MaxRequests
\* times.
MaxRequests == 2
\* The manifest and the uploads are about the Transmissions 1..MaxCloudIds.
MaxCloudIds == 3
\* uploadTransmissionToCloud is called at most MaxUploads times.
MaxUploads == 2
\* handleCloudLoad is called at most MaxLoads times.
MaxLoads == 1
\* The functions of db.ts are called on their own at most MaxDbCalls
\* times, for the Transmissions 1..MaxDbIds.
MaxDbCalls == 4
MaxDbIds == 3

\* ------------------------------------------------------------- values
\* localStorage.getItem returns null for a key that was never set.
NoKey == "<null>"
\* A key as a user types it into the ApiKeyModal; the modal accepts the
\* empty input as well.
LongKey == "AIzaSy-0123456789"
\* A key of at most ten characters.
ShortKey == "AIzaSy"
KeyInputs == {"", LongKey}
KeyValues == {NoKey} \cup KeyInputs

\* JavaScript's undefined, for the optional string fields.
Undefined == "undefined"
\* state.transmission = null
NoTransmission == [null |-> TRUE]
\* lead.details = undefined
NoDetails == [undefined |-> TRUE]

ErrInterrupted == "Transmission Interrupted. Check Protocol."

CATEGORIES == <<"Connections", "Events", "Locations", "Objects", "Threats", "Factions">>

\* The stage functions of services/gemini.ts.
StTitle == "generateTitleAndSetting"
StExposition == "generateExposition"
StRoster == "generateLeads"
StHeader == "generateTransmissionHeader"
StLeadText == "generateLeadInspectionText"
StLeadImage == "generateLeadInspectionImage"
StRegenSensory == "regenerateSensoryField"
StRegenDossier == "regenerateExpandedDescription"
StRegenImage == "regenerateLeadImage"
\* Those that go through streamJson, and those that call generateContent for
\* an image inside a try block.
TextStages == {StTitle, StExposition, StRoster, StLeadText, StRegenSensory, StRegenDossier}
ImageStages == {StHeader, StLeadImage, StRegenImage}
StructureStages == {StTitle, StExposition, StRoster}

\* The errors a stage function can fail with.
MissingCredential == "MissingCredential"
TransportFailure == "TransportFailure"
MalformedGenerationOutput == "MalformedGenerationOutput"
Errors == {MissingCredential, TransportFailure, MalformedGenerationOutput}
IsError(v) == v \in Errors

\* What the service can answer to a streamed structured-text request: a
\* text that parses, a transport failure, a text that does not parse.
TextOutcomes == {"ok", "transport", "malformed"}
\* What it can answer to an image request: a part with inlineData, a
\* response without any, a thrown error.
ImageOutcomes == {"inline", "empty", "throw"}
SaveOutcomes == BOOLEAN
LoadOutcomes == BOOLEAN

\* The payload the service answers with; the stage functions turn it into a
\* data URI.
HeaderPayload == "HDR"
LeadPayload == "IMG"
DataUrl(payload) == "data:image/png;base64," \o payload

\* The values the user can type when editing a lead.
EditedName == "renamed"
EditedDescription == "rewritten"

VARIABLES
    apiKey,            \* localStorage['technoir_api_key']
    hasApiKey,         \* App state hasApiKey
    user,              \* App state user (TRUE: signed in)
    showKeyModal,      \* App state showKeyModal
    isBulkGenerating,  \* App state isBulkGenerating (Full_Gen)
    state,             \* App state: GameState
    loadingMessage,    \* App state loadingMessage
    localArchives,     \* App state localArchives
    pendingLoads,      \* un-awaited loadLocalArchives calls not yet settled
    db,                \* IndexedDB store 'transmissions', keyed by id
    clock,             \* Date.now(), counted in transmissions created
    nRuns,             \* handleGenerate invocations that started a run
    runs,              \* the suspended handleGenerate invocations
    edits,             \* lead edits saved (handleUpdateLead, handleSaveEdit)
    activeLead,        \* App state activeLead
    dossier,           \* state of the mounted LeadDossier component
    ops,               \* the suspended handleInspectLead / handleRegenClick invocations
    nOps,              \* such invocations started
    streams,           \* the streamJson invocations
    requests,          \* the requests of the stage functions called on their own
    cloud,             \* the bucket: the manifest file, the uploads and the loads in flight
    history            \* the calls of db.ts made on their own, in the order they were made

\* The state of the viewer's lead dossier.
ViewerVars == <<activeLead, dossier, ops, nOps>>

\* What lies outside the application's own state.
Remote == <<requests, cloud, history>>

vars == <<apiKey, hasApiKey, user, showKeyModal, isBulkGenerating, state,
          loadingMessage, localArchives, pendingLoads, db, clock, nRuns, runs,
          edits, ViewerVars, streams, Remote>>

RunIds == 1..MaxRuns

\* ------------------------------------------------------------- gemini.ts
GetApiKey == IF apiKey = NoKey \/ apiKey = "" THEN Undefined ELSE apiKey

GetAI == IF GetApiKey = Undefined THEN MissingCredential ELSE "client"

\* One entry of a caller's record of stage-function calls: the stage, the
\* lead index (0 for the stages of the Transmission), whether a request was
\* issued to the service, the outcome the service answered with ("none"
\* until it does) and the call's result: "pending" while the request is in
\* flight, then "value", a data URI, Undefined (an absent image) or the error
\* the call failed with.
Call(stage, lead, request, result) ==
    [stage |-> stage, lead |-> lead, request |-> request, outcome |-> "none",
     result |-> result]

\* A text stage calls streamJson, whose first statement is getAI(): it
\* throws before generateContentStream is called.
CallTextStageNoCheck(stage, lead) == Call(stage, lead, TRUE, "pending")
CallTextStage(stage, lead) ==
    IF GetAI = MissingCredential
    THEN Call(stage, lead, FALSE, MissingCredential)
    ELSE Call(stage, lead, TRUE, "pending")

\* An image stage calls getAI() inside its try block: the error is caught
\* and logged, and the stage returns undefined.
CallImageStage(stage, lead) ==
    IF GetAI = MissingCredential
    THEN Call(stage, lead, FALSE, Undefined)
    ELSE Call(stage, lead, TRUE, "pending")

CallStage(stage, lead) ==
    IF stage \in ImageStages THEN CallImageStage(stage, lead)
    ELSE CallTextStage(stage, lead)

\* streamJson's result for an outcome of the stream.
StreamJsonResult(outcome) ==
    CASE outcome = "ok" -> "value"
      [] outcome = "transport" -> TransportFailure
      [] outcome = "malformed" -> MalformedGenerationOutput

\* The image stages' result: the first part with inlineData as a data URI,
\* undefined when there is none or when the request threw.
ImageStageResultRethrow(outcome, payload) ==
    CASE outcome = "inline" -> DataUrl(payload)
      [] outcome = "empty" -> Undefined
      [] outcome = "throw" -> TransportFailure
ImageStageResult(outcome, payload) ==
    CASE outcome = "inline" -> DataUrl(payload)
      [] outcome = "empty" -> Undefined
      [] outcome = "throw" -> Undefined

\* The results of the structure stages.
TitleData == [title |-> "TITLE", settingSummary |-> "SUMMARY"]
ExpositionData == [technology |-> "TECH", society |-> "SOC", environment |-> "ENV"]

\* A lead as the roster stage returns it.
RosterLead(i, dup) ==
    [id |-> IF dup /\ i = 2 THEN 1 ELSE i,
     name |-> "name" \o ToString(i),
     description |-> "desc" \o ToString(i),
     category |-> CATEGORIES[((i - 1) % 6) + 1],
     details |-> NoDetails]

\* The rosters the service can answer with: any number of leads up to
\* MaxLeads (nothing checks the count), with distinct ids or with the first
\* two leads carrying the same id (nothing checks the ids either).
Rosters ==
    {[i \in 1..n |-> RosterLead(i, dup)] : n \in 0..MaxLeads, dup \in {FALSE}}
    \cup {[i \in 1..n |-> RosterLead(i, TRUE)] : n \in 2..MaxLeads}

\* A generated text, tagged with the name and description it was prompted
\* with.
Generated(field, lead) == <<field, lead.name, lead.description>>

\* generateLeadInspectionText's value for a lead.
TextDetails(lead) ==
    [sensory |-> [sight |-> Generated("sight", lead),
                  sound |-> Generated("sound", lead),
                  smell |-> Generated("smell", lead),
                  vibe |-> Generated("vibe", lead)],
     expandedDescription |-> Generated("dossier", lead)]

\* { ...textDetails, imageUrl }
Details(textDetails, imageUrl) ==
    [sensory |-> textDetails.sensory,
     expandedDescription |-> textDetails.expandedDescription,
     imageUrl |-> imageUrl]

\* ------------------------------------------------------------- streamJson text
\* Strings are sequences of characters: At(s, i) is the character at i, the
\* empty string past the end.
At(s, i) == IF i \in 1..Len(s) THEN SubSeq(s, i, i) ELSE ""
From(s, i) == SubSeq(s, i, Len(s))

\* The substring of s at position i is p.
StartsWith(s, i, p) ==
    i + Len(p) - 1 <= Len(s) /\ SubSeq(s, i, i + Len(p) - 1) = p

Backquote == SubSeq("`'", 1, 1)
Fence == Backquote \o Backquote \o Backquote
FenceJson == Fence \o "json"
Newline == "\n"

\* The length of the match of /```json\n?|```/ at position i of s, 0 when
\* there is none: the first alternative is tried first and \n? is greedy.
FenceMatch(s, i) ==
    IF StartsWith(s, i, FenceJson \o Newline) THEN 8
    ELSE IF StartsWith(s, i, FenceJson) THEN 7
    ELSE IF StartsWith(s, i, Fence) THEN 3
    ELSE 0

\* The position of the leftmost match at or after i, 0 when there is none.
\* Every match starts with three backquotes.
NextFence(s, i) ==
    LET at == {k \in i..(Len(s) - 2) : At(s, k) = Backquote /\ StartsWith(s, k, Fence)}
    IN  IF at = {} THEN 0
        ELSE CHOOSE k \in at : \A j \in at : k <= j

\* s.replace(/```json\n?|```/g, ''): the matches are found left to right in
\* s, each search starting where the match before ended, and removed.
RECURSIVE ReplaceFrom(_, _)
ReplaceFrom(s, i) ==
    LET k == NextFence(s, i)
    IN  IF k = 0 THEN From(s, i)
        ELSE SubSeq(s, i, k - 1) \o ReplaceFrom(s, k + FenceMatch(s, k))
StripFirstFence(s) ==
    LET k == NextFence(s, 1)
    IN  IF k = 0 THEN s
        ELSE SubSeq(s, 1, k - 1) \o From(s, k + FenceMatch(s, k))
StripFences(s) == ReplaceFrom(s, 1)

\* The white space and line terminators trim() removes that occur in the
\* texts of the model.
WhiteSpace == {" ", "\n", "\t", "\r"}

\* s.trim(): the text from the first to the last character that is no
\* white space.
RECURSIVE TrimStart(_, _)
TrimStart(s, i) ==
    IF i <= Len(s) /\ At(s, i) \in WhiteSpace THEN TrimStart(s, i + 1) ELSE i
RECURSIVE TrimEnd(_, _)
TrimEnd(s, j) ==
    IF j >= 1 /\ At(s, j) \in WhiteSpace THEN TrimEnd(s, j - 1) ELSE j
Trim(s) == SubSeq(s, TrimStart(s, 1), TrimEnd(s, Len(s)))

\* cleanText of streamJson.
Clean(fullText) == Trim(StripFences(fullText))

\* ------------------------------------------------------------- JSON
\* A JSON value: a string, a literal (null, true, false), an array of
\* values or an object, whose items are its members in the order of the
\* text, each a value with its key.  The texts of the model hold no numbers,
\* no escapes and no repeated keys.
JString(text) == [kind |-> "string", key |-> "", text |-> text, items |-> <<>>]
JLiteral(text) == [kind |-> "literal", key |-> "", text |-> text, items |-> <<>>]
JArray(items) == [kind |-> "array", key |-> "", text |-> "", items |-> items]
JObject(members) == [kind |-> "object", key |-> "", text |-> "", items |-> members]
JMember(key, value) == [value EXCEPT !.key = key]
JUndefined == [kind |-> "undefined", key |-> "", text |-> "", items |-> <<>>]
Literals == {"null", "true", "false"}

\* JSON.stringify(value), the text of a response that holds the value.
RECURSIVE Stringify(_)
RECURSIVE Joined(_, _)
Joined(items, inObject) ==
    IF items = <<>> THEN ""
    ELSE LET head == (IF inObject THEN "\"" \o items[1].key \o "\":" ELSE "")
                     \o Stringify([items[1] EXCEPT !.key = ""])
         IN  IF Len(items) = 1 THEN head
             ELSE head \o "," \o Joined(Tail(items), inObject)
Stringify(v) ==
    CASE v.kind = "string" -> "\"" \o v.text \o "\""
      [] v.kind = "literal" -> v.text
      [] v.kind = "array" -> "[" \o Joined(v.items, FALSE) \o "]"
      [] v.kind = "object" -> "{" \o Joined(v.items, TRUE) \o "}"

\* The result of a parsing step: the value and the position after it, or a
\* failure.
Parsed(value, next) == [ok |-> TRUE, value |-> value, next |-> next]
ParseFailure == [ok |-> FALSE, value |-> JUndefined, next |-> 0]

\* The position of the first character at or after i that is not JSON
\* white space, Len(s) + 1 when there is none.
RECURSIVE SkipWs(_, _)
SkipWs(s, i) ==
    IF At(s, i) \in WhiteSpace THEN SkipWs(s, i + 1) ELSE i

\* A string starts at i with a double quote and ends at the next one; a
\* control character inside it is an error.
RECURSIVE CloseQuote(_, _)
CloseQuote(s, k) ==
    IF k > Len(s) \/ At(s, k) \in {"\n", "\t", "\r"} THEN 0
    ELSE IF At(s, k) = "\"" THEN k
    ELSE CloseQuote(s, k + 1)
ParseString(s, i) ==
    LET close == CloseQuote(s, i + 1)
    IN  IF close = 0 THEN ParseFailure
        ELSE Parsed(JString(SubSeq(s, i + 1, close - 1)), close + 1)

ParseLiteral(s, i) ==
    IF \E l \in Literals : StartsWith(s, i, l)
    THEN LET l == CHOOSE l \in Literals : StartsWith(s, i, l)
         IN  Parsed(JLiteral(l), i + Len(l))
    ELSE ParseFailure

RECURSIVE ParseValue(_, _)
RECURSIVE ParseElements(_, _, _)
RECURSIVE ParseMembers(_, _, _)

\* The elements of an array from position i, after `acc`.
ParseElements(s, i, acc) ==
    LET e == ParseValue(s, i)
        j == SkipWs(s, e.next)
    IN  IF ~e.ok THEN ParseFailure
        ELSE IF At(s, j) = "," THEN ParseElements(s, SkipWs(s, j + 1), Append(acc, e.value))
        ELSE IF At(s, j) = "]" THEN Parsed(JArray(Append(acc, e.value)), j + 1)
        ELSE ParseFailure

\* The members of an object from position i, after `acc`.
ParseMembers(s, i, acc) ==
    LET k == IF At(s, i) = "\"" THEN ParseString(s, i) ELSE ParseFailure
        c == SkipWs(s, k.next)
        v == ParseValue(s, SkipWs(s, c + 1))
        j == SkipWs(s, v.next)
        all == Append(acc, JMember(k.value.text, v.value))
    IN  IF ~k.ok \/ At(s, c) # ":" THEN ParseFailure
        ELSE IF ~v.ok THEN ParseFailure
        ELSE IF At(s, j) = "," THEN ParseMembers(s, SkipWs(s, j + 1), all)
        ELSE IF At(s, j) = "}" THEN Parsed(JObject(all), j + 1)
        ELSE ParseFailure

ParseValue(s, i) ==
    LET c == At(s, i)
        j == SkipWs(s, i + 1)
    IN  CASE c = "\"" -> ParseString(s, i)
          [] c = "[" -> IF At(s, j) = "]" THEN Parsed(JArray(<<>>), j + 1)
                        ELSE ParseElements(s, j, <<>>)
          [] c = "{" -> IF At(s, j) = "}" THEN Parsed(JObject(<<>>), j + 1)
                        ELSE ParseMembers(s, j, <<>>)
          [] OTHER -> ParseLiteral(s, i)

\* JSON.parse(text): one value with white space around it, or a failure.
JsonParse(text) ==
    LET v == ParseValue(text, SkipWs(text, 1))
    IN  IF v.ok /\ SkipWs(text, v.next) = Len(text) + 1 THEN v
        ELSE ParseFailure

\* data[name] of a parsed value: undefined when data is no object or has no
\* such member.
Member(data, name) ==
    IF data.kind = "object" /\ \E k \in DOMAIN data.items : data.items[k].key = name
    THEN LET k == CHOOSE k \in DOMAIN data.items : data.items[k].key = name
         IN  [data.items[k] EXCEPT !.key = ""]
    ELSE JUndefined

\* A value that `||` replaces by its right operand.
Falsy(v) ==
    \/ v.kind = "undefined"
    \/ v.kind = "literal" /\ v.text \in {"null", "false"}
    \/ v.kind = "string" /\ v.text = ""

\* ------------------------------------------------------------- db.ts
\* store.put(transmission): the store's keyPath is 'id'.
Put(store, t) ==
    [k \in DOMAIN store \cup {t.id} |-> IF k = t.id THEN t ELSE store[k]]

\* saveTransmission, with the outcome of the put request.
SaveTransmission(store, t, ok) == IF ok THEN Put(store, t) ELSE store

\* deleteTransmission, with the outcome of the delete request.
DeleteTransmission(store, id, ok) ==
    IF ok THEN [k \in DOMAIN store \ {id} |-> store[k]] ELSE store

RECURSIVE SortAsc(_)
SortAsc(ids) ==
    IF ids = {} THEN <<>>
    ELSE LET m == CHOOSE x \in ids : \A y \in ids : x <= y
         IN <<m>> \o SortAsc(ids \ {m})

RECURSIVE SortDesc(_)
SortDesc(ids) ==
    IF ids = {} THEN <<>>
    ELSE LET m == CHOOSE x \in ids : \A y \in ids : y <= x
         IN <<m>> \o SortDesc(ids \ {m})

\* getAllTransmissions: store.getAll() sorted by b.id - a.id.
GetAllUnsorted(store) ==
    LET order == SortAsc(DOMAIN store)
    IN [k \in 1..Len(order) |-> store[order[k]]]
GetAllTransmissions(store) ==
    LET order == SortDesc(DOMAIN store)
    IN [k \in 1..Len(order) |-> store[order[k]]]

\* ------------------------------------------------------------- App.tsx
CanGenerate == user \/ hasApiKey

\* checkManualKey, run by the mount effect.
CheckManualKey(k) == k # NoKey /\ Len(k) > 10

MsgNone == [text |-> "", i |-> 0, n |-> 0]
Msg(text) == [text |-> text, i |-> 0, n |-> 0]
MsgNode(i, n) == [text |-> ">> PROCESSING NODE", i |-> i, n |-> n]

IdleRun ==
    [pc |-> "idle", mode |-> "none", leads |-> <<>>,
     header |-> "none", t |-> NoTransmission, i |-> 0, detailedLeads |-> <<>>,
     textDetails |-> NoDetails, calls |-> <<>>, saveOk |-> TRUE,
     updated |-> NoTransmission, log |-> <<>>]

\* onLog(msg) in generateFullTransmission: the run's record of the messages
\* the callback received, each with the number of stage calls made so far.
LogEntry(msg, calls) == [msg |-> msg, calls |-> calls]
OnLog(run, msg) == [run EXCEPT !.log = Append(@, LogEntry(msg, Len(run.calls)))]
MsgScan(n) == [text |-> ">> INITIATING DEEP SCAN", i |-> 0, n |-> n]
MsgComplete == Msg(">> TRANSMISSION PACKAGE COMPLETE.")

\* activeLead = null
NoActiveLead == [null |-> TRUE]

\* The state of a LeadDossier as useState initialises it; there is none
\* while activeLead is null.
FreshDossier ==
    [mounted |-> TRUE, isRegenerating |-> "null", regenPhase |-> [field |-> "null", phase |-> "null"],
     editingField |-> "null", editValue |-> <<>>]
Unmounted == [FreshDossier EXCEPT !.mounted = FALSE]

OpIds == 1..MaxOps
IdleOp ==
    [pc |-> "idle", kind |-> "none", lead |-> NoDetails, fieldType |-> "none",
     sensoryField |-> Undefined, canGenerate |-> FALSE, live |-> FALSE, calls |-> <<>>,
     before |-> NoDetails, textDetails |-> NoDetails]

\* The record of an invocation that has ended.
DoneOp == [IdleOp EXCEPT !.pc = "done"]

StreamIds == 1..2
\* A streamJson invocation: the stage function that calls it, the value and
\* the text of the service's response, the chunks the stream has still to
\* deliver and those it delivered, and what streamJson has done.
IdleStream ==
    [pc |-> "idle", stage |-> "none", sent |-> JUndefined, text |-> "",
     chunks |-> <<>>, onUpdate |-> FALSE, request |-> FALSE, delivered |-> <<>>,
     fullText |-> "", updates |-> <<>>, data |-> JUndefined, result |-> JUndefined,
     logged |-> <<>>, thrown |-> [error |-> "none", message |-> ""]]

\* The bucket before anything was uploaded: there is no manifest file, and
\* no upload and no download is in flight.
EmptyBucket == [exists |-> FALSE, manifest |-> <<>>, uploads |-> <<>>, loads |-> <<>>]

TypeOK ==
    /\ apiKey \in KeyValues
    /\ hasApiKey \in BOOLEAN
    /\ user \in BOOLEAN
    /\ showKeyModal \in BOOLEAN
    /\ isBulkGenerating \in BOOLEAN
    /\ state.status \in {"setup", "loading", "viewing"}
    /\ pendingLoads \in 0..MaxPendingLoads
    /\ clock \in 0..MaxRuns
    /\ nRuns \in 0..MaxRuns
    /\ edits \in 0..MaxEdits
    /\ DOMAIN runs = RunIds

\* The state after the mount effect: the store and the key are what earlier
\* sessions left (here an empty store), the archive load is pending.
MountedApp(bulk) ==
    /\ hasApiKey = CheckManualKey(apiKey)
    /\ user = FALSE
    /\ showKeyModal = FALSE
    /\ isBulkGenerating = bulk
    /\ state = [transmission |-> NoTransmission, status |-> "setup", error |-> Undefined]
    /\ loadingMessage = MsgNone
    /\ localArchives = <<>>
    /\ pendingLoads = 1
    /\ db = <<>>
    /\ clock = 0
    /\ nRuns = 0
    /\ runs = [r \in RunIds |-> IdleRun]
    /\ edits = 0
    /\ activeLead = NoActiveLead
    /\ dossier = Unmounted
    /\ ops = [o \in OpIds |-> IdleOp]
    /\ nOps = 0
\* Nothing was asked of the generative service or of the bucket.
Untouched == requests = <<>> /\ cloud = EmptyBucket /\ history = <<>>
Mounted(bulk) ==
    /\ MountedApp(bulk)
    /\ streams = [x \in StreamIds |-> IdleStream]
    /\ Untouched

Init == apiKey \in KeyValues /\ Mounted(FALSE)

\* ------------------------------------------------------------- run records
Others == <<apiKey, hasApiKey, user, showKeyModal, isBulkGenerating, edits, pendingLoads,
            ViewerVars, streams, Remote>>

SetRun(r, run) == runs' = [runs EXCEPT ![r] = run]

\* The request of `stage` for `lead` settles: the service answered with
\* `outcome` and the stage function returns or throws `result`.
SettleCall(calls, stage, lead, outcome, result) ==
    [k \in DOMAIN calls |->
        IF calls[k].stage = stage /\ calls[k].lead = lead /\ calls[k].result = "pending"
        THEN [calls[k] EXCEPT !.outcome = outcome, !.result = result]
        ELSE calls[k]]

\* The requests of a run that are in flight.
InFlight(run) == {k \in DOMAIN run.calls : run.calls[k].result = "pending"}

\* The Transmission object literal of handleGenerate and of
\* generateFullTransmission.
NewTransmission(id, leads, headerImageUrl) ==
    [id |-> id, createdAt |-> "today", title |-> TitleData.title,
     settingSummary |-> TitleData.settingSummary, exposition |-> ExpositionData,
     headerImageUrl |-> headerImageUrl, leads |-> leads]

\* The Transmission literal of Interactive mode: headerImageUrl is undefined
\* whatever the header promise has done by then.
InteractiveTransmissionWithHeader(id, leads, header) ==
    NewTransmission(id, leads, IF header = "pending" THEN Undefined ELSE header)
InteractiveTransmission(id, leads, header) == NewTransmission(id, leads, Undefined)

\* The catch block of handleGenerate.
CatchStateKeepsStatus(prev) == [prev EXCEPT !.error = ErrInterrupted]
CatchState(prev) == [prev EXCEPT !.status = "setup", !.error = ErrInterrupted]

\* ------------------------------------------------------------- Full mode
\* detailedLeads.push({ ...lead, details: { ...textDetails, imageUrl } })
DetailedLeadNeedsImage(lead, textDetails, imageUrl) ==
    IF imageUrl = Undefined THEN lead
    ELSE [lead EXCEPT !.details = Details(textDetails, imageUrl)]
DetailedLead(lead, textDetails, imageUrl) ==
    [lead EXCEPT !.details = Details(textDetails, imageUrl)]

\* detailedLeads.push(lead): the basic version is kept when the lead fails.
KeepBasicDropped(detailedLeads, lead) == detailedLeads
KeepBasic(detailedLeads, lead) == Append(detailedLeads, lead)

\* The detail-text call of lead i of a run failed.
TextFailedAt(run, i) ==
    \E k \in DOMAIN run.calls :
        /\ run.calls[k].stage = StLeadText
        /\ run.calls[k].lead = i
        /\ run.calls[k].result \notin {"pending", "value"}

\* The lead the for loop goes to after the catch block of lead i: the next
\* one, the failed lead is not tried again.
AfterFailedLeadRetry(i) == i
AfterFailedLead(i) == i + 1

\* The for loop of generateFullTransmission at lead i, after the leads
\* before i were pushed: the loop ends, or the detail-text stage of lead i
\* is called.  Without a credential that call and those of all later leads
\* fail at once, each caught by the loop, which pushes the basic lead.
EnterLoopAllAtOnce(run, i) ==
    LET n == Len(run.leads)
    IN  IF i > n
        THEN [run EXCEPT !.pc = "return", !.i = i,
                         !.t = [run.t EXCEPT !.leads = run.detailedLeads]]
        ELSE [run EXCEPT !.pc = "leadText", !.i = i,
                         !.calls = @ \o [k \in 1..(n - i + 1) |->
                                            CallTextStage(StLeadText, i + k - 1)]]
EnterLoopReversed(run, i) ==
    LET n == Len(run.leads)
        c == CallTextStage(StLeadText, n + 1 - i)
    IN  IF i > n
        THEN [run EXCEPT !.pc = "return", !.i = i,
                         !.t = [run.t EXCEPT !.leads = run.detailedLeads]]
        ELSE [run EXCEPT !.pc = "leadText", !.i = i, !.calls = Append(@, c)]
EnterLoopSilentOnFailure(run, i) ==
    LET n == Len(run.leads)
        c == CallTextStage(StLeadText, i)
        quiet == i > 1 /\ TextFailedAt(run, i - 1)
    IN  IF i > n
        THEN [OnLog(run, MsgComplete) EXCEPT
                 !.pc = "return", !.i = i,
                 !.t = [run.t EXCEPT !.leads = run.detailedLeads]]
        ELSE [(IF quiet THEN run ELSE OnLog(run, MsgNode(i, n))) EXCEPT
                 !.pc = "leadText", !.i = i, !.calls = Append(@, c)]
EnterLoop(run, i) ==
    LET n == Len(run.leads)
        c == CallTextStage(StLeadText, i)
    IN  IF i > n
        THEN [OnLog(run, MsgComplete) EXCEPT
                 !.pc = "return", !.i = i,
                 !.t = [run.t EXCEPT !.leads = run.detailedLeads]]
        ELSE IF IsError(c.result)
        THEN LET rest == SubSeq(run.leads, i, n)
                 all == run.detailedLeads \o rest
                 first == Len(run.calls)
             IN  [run EXCEPT !.pc = "return", !.i = n + 1,
                             !.detailedLeads = all,
                             !.calls = @ \o [k \in 1..(n - i + 1) |->
                                                CallTextStage(StLeadText, i + k - 1)],
                             !.log = @ \o [k \in 1..(n - i + 1) |->
                                              LogEntry(MsgNode(i + k - 1, n), first + k - 1)]
                                       \o <<LogEntry(MsgComplete, first + n - i + 1)>>,
                             !.t = [run.t EXCEPT !.leads = all]]
        ELSE [OnLog(run, MsgNode(i, n)) EXCEPT
                 !.pc = "leadText", !.i = i, !.calls = Append(@, c)]

\* The last onLog message of the code EnterLoop models.
LoopMessage(run) ==
    IF run.pc = "return" THEN MsgComplete
    ELSE MsgNode(run.i, Len(run.leads))

\* generateFullTransmission after the awaited header stage returned
\* headerImageUrl: the Transmission literal, then the loop.
FullAfterHeader(run, headerImageUrl, now) ==
    EnterLoop(OnLog([run EXCEPT !.header = headerImageUrl,
                                !.t = NewTransmission(now, run.leads, headerImageUrl),
                                !.detailedLeads = <<>>],
                    MsgScan(Len(run.leads))), 1)

\* ------------------------------------------------------------- handleGenerate
\* A step of the model is one task of the event loop: the event that starts
\* it (a click, a settled request) and the handler code that runs up to the
\* next await of a pending request.  A rejected await reaches the catch
\* block in the same task.

\* The record of a run that has ended in the catch block: what the header
\* stage and the save did, and the calls of a run that was aborted before it
\* built a Transmission.
Aborted(run) ==
    [IdleRun EXCEPT !.pc = "aborted", !.mode = run.mode, !.header = run.header,
                    !.saveOk = run.saveOk, !.log = run.log,
                    !.calls = IF run.t = NoTransmission THEN run.calls ELSE <<>>]

\* The catch block of handleGenerate ends run r.
Abort(r, run) ==
    /\ state' = CatchState(state)
    /\ SetRun(r, Aborted(run))

\* generateFullTransmission goes on as `after` says: it awaits the next
\* request, or it has returned and handleGenerate calls saveTransmission(t)
\* and awaits it.
FullGoesOn(r, after, ok) ==
    /\ loadingMessage' = LoopMessage(after)
    /\ IF after.pc = "return"
       THEN /\ db' = SaveTransmission(db, after.t, ok)
            /\ SetRun(r, [after EXCEPT !.pc = "saveFull", !.saveOk = ok])
       ELSE /\ db' = db
            /\ SetRun(r, after)

\* handleGenerate after `await headerPromise` of Interactive mode: the
\* Transmission built when the roster arrived is saved, with the image if
\* there is one, and the save is awaited.
ResumeHeader(r, run, ok) ==
    LET headerUrl == run.header
        updated == [run.t EXCEPT !.headerImageUrl = headerUrl]
    IN  IF headerUrl # Undefined
        THEN /\ db' = SaveTransmission(db, updated, ok)
             /\ SetRun(r, [run EXCEPT !.pc = "savePatch", !.saveOk = ok,
                                      !.updated = updated])
        ELSE /\ db' = SaveTransmission(db, run.t, ok)
             /\ SetRun(r, [run EXCEPT !.pc = "saveNoPatch", !.saveOk = ok])

\* The generate button.  Without a resolvable credential the title+setting
\* call throws before any request and the catch block runs at once.
HandleGenerate ==
    /\ state.status = "setup"
    /\ ~showKeyModal
    /\ IF ~CanGenerate
       THEN /\ showKeyModal' = TRUE
            /\ UNCHANGED <<apiKey, hasApiKey, user, isBulkGenerating, state,
                           loadingMessage, localArchives, pendingLoads, db, clock,
                           nRuns, runs, edits, ViewerVars, streams, Remote>>
       ELSE /\ nRuns < MaxRuns
            /\ LET r == nRuns + 1
                   c == CallTextStage(StTitle, 0)
                   run == [IdleRun EXCEPT
                             !.mode = IF isBulkGenerating THEN "full" ELSE "interactive",
                             !.log = IF isBulkGenerating
                                     THEN <<LogEntry(
                                              Msg(">> GENERATING STRUCTURAL FRAMEWORK..."), 0)>>
                                     ELSE <<>>,
                             !.calls = <<c>>,
                             !.pc = "title"]
               IN  /\ nRuns' = r
                   /\ IF IsError(c.result)
                      THEN /\ SetRun(r, Aborted(run))
                           /\ state' = CatchState([state EXCEPT !.status = "loading"])
                      ELSE /\ SetRun(r, run)
                           /\ state' = [state EXCEPT !.status = "loading"]
            /\ loadingMessage' =
                 IF isBulkGenerating
                 THEN Msg(">> GENERATING STRUCTURAL FRAMEWORK...")
                 ELSE Msg(">> ESTABLISHING SECURE CONNECTION...")
            /\ UNCHANGED <<apiKey, hasApiKey, user, showKeyModal, isBulkGenerating,
                           localArchives, pendingLoads, db, clock, edits, ViewerVars, streams, Remote>>

\* The title+setting request settles; on success the exposition stage is
\* called.
TitleSettles(r, outcome) ==
    LET run == runs[r]
        res == StreamJsonResult(outcome)
        settled == [run EXCEPT !.calls = SettleCall(@, StTitle, 0, outcome, res)]
        c == CallTextStage(StExposition, 0)
        logged == IF run.mode = "full"
                  THEN OnLog(OnLog(settled, Msg(">> STRUCTURE ACQUIRED")),
                             Msg(">> DOWNLOADING EXPOSITION..."))
                  ELSE settled
        called == [logged EXCEPT !.calls = Append(@, c), !.pc = "exposition"]
    IN  /\ run.pc = "title"
        /\ IF IsError(res)
           THEN Abort(r, settled) /\ UNCHANGED loadingMessage
           ELSE /\ loadingMessage' =
                     IF run.mode = "full" THEN Msg(">> DOWNLOADING EXPOSITION...")
                     ELSE Msg(">> GENERATING IDENTITY PROTOCOLS...")
                /\ IF IsError(c.result)
                   THEN Abort(r, called)
                   ELSE SetRun(r, called) /\ UNCHANGED state
        /\ UNCHANGED <<localArchives, db, clock, nRuns, Others>>

\* The exposition request settles; on success Interactive mode calls the
\* header stage without awaiting it, and both modes call the roster stage.
ExpositionSettles(r, outcome) ==
    LET run == runs[r]
        res == StreamJsonResult(outcome)
        settled == [run EXCEPT !.calls = SettleCall(@, StExposition, 0, outcome, res)]
        h == CallImageStage(StHeader, 0)
        c == CallTextStage(StRoster, 0)
        called == IF run.mode = "interactive"
                  THEN [settled EXCEPT
                          !.header = IF h.request THEN "pending" ELSE h.result,
                          !.calls = @ \o <<h, c>>,
                          !.pc = "roster"]
                  ELSE [OnLog(settled, Msg(">> COMPILING LEAD NETWORK...")) EXCEPT
                          !.calls = Append(@, c), !.pc = "roster"]
    IN  /\ run.pc = "exposition"
        /\ IF IsError(res)
           THEN Abort(r, settled) /\ UNCHANGED loadingMessage
           ELSE /\ loadingMessage' =
                     IF run.mode = "full" THEN Msg(">> COMPILING LEAD NETWORK...")
                     ELSE Msg(">> DOWNLOADING SECTOR EXPOSITION...")
                /\ IF IsError(c.result)
                   THEN Abort(r, called)
                   ELSE SetRun(r, called) /\ UNCHANGED state
        /\ UNCHANGED <<localArchives, db, clock, nRuns, Others>>

\* The roster request settles with the leads of the response.  Interactive
\* mode builds the Transmission and displays it, then awaits the header
\* promise: if that has settled already the handler goes on at once.  Full
\* mode calls the header stage and awaits it.
RosterSettles(r, outcome, roster, ok) ==
    LET run == runs[r]
        res == StreamJsonResult(outcome)
        settled == [run EXCEPT !.calls = SettleCall(@, StRoster, 0, outcome, res)]
        h == CallImageStage(StHeader, 0)
        t == InteractiveTransmission(clock + 1, roster, run.header)
        shown == [settled EXCEPT !.leads = roster, !.t = t, !.pc = "awaitHeader"]
        logged == OnLog(settled, Msg(">> RENDERING ENVIRONMENTAL VISUALS..."))
    IN  /\ run.pc = "roster"
        /\ IF IsError(res)
           THEN Abort(r, settled) /\ UNCHANGED <<loadingMessage, clock, db>>
           ELSE IF run.mode = "interactive"
           THEN /\ loadingMessage' = MsgNone
                /\ clock' = clock + 1
                /\ IF run.header = "pending"
                   THEN /\ state' = [transmission |-> t, status |-> "viewing",
                                     error |-> Undefined]
                        /\ SetRun(r, shown)
                        /\ db' = db
                   ELSE IF IsError(run.header)
                   THEN /\ state' = CatchState([transmission |-> t, status |-> "viewing",
                                                error |-> Undefined])
                        /\ SetRun(r, Aborted(shown))
                        /\ db' = db
                   ELSE /\ state' = [transmission |-> t, status |-> "viewing",
                                     error |-> Undefined]
                        /\ ResumeHeader(r, shown, ok)
           ELSE IF h.request
           THEN /\ SetRun(r, [logged EXCEPT !.leads = roster, !.header = "pending",
                                            !.calls = Append(@, h), !.pc = "header"])
                /\ loadingMessage' = Msg(">> RENDERING ENVIRONMENTAL VISUALS...")
                /\ UNCHANGED <<state, clock, db>>
           ELSE /\ FullGoesOn(r, FullAfterHeader(
                                    [logged EXCEPT !.leads = roster, !.calls = Append(@, h)],
                                    h.result, clock + 1), ok)
                /\ clock' = clock + 1
                /\ UNCHANGED state
        /\ UNCHANGED <<localArchives, nRuns, Others>>

\* The header-image request settles.  In Interactive mode the handler goes
\* on if it is awaiting the promise; in Full mode generateFullTransmission
\* builds the Transmission and enters the loop.
HeaderSettles(r, outcome, ok) ==
    LET run == runs[r]
        res == ImageStageResult(outcome, HeaderPayload)
        settled == [run EXCEPT !.calls = SettleCall(@, StHeader, 0, outcome, res),
                               !.header = res]
    IN  /\ run.header = "pending"
        /\ run.pc \in {"roster", "awaitHeader", "header"}
        /\ IF run.pc = "roster"
           THEN /\ SetRun(r, settled)
                /\ UNCHANGED <<state, loadingMessage, clock, db>>
           ELSE IF IsError(res)
           THEN Abort(r, settled) /\ UNCHANGED <<loadingMessage, clock, db>>
           ELSE IF run.pc = "awaitHeader"
           THEN /\ ResumeHeader(r, settled, ok)
                /\ UNCHANGED <<state, loadingMessage, clock>>
           ELSE /\ FullGoesOn(r, FullAfterHeader(settled, res, clock + 1), ok)
                /\ clock' = clock + 1
                /\ UNCHANGED state
        /\ UNCHANGED <<localArchives, nRuns, Others>>

\* The detail-text request of lead i settles.  A failure is caught by the
\* loop, which keeps the basic lead; on success the detail-image stage of
\* the lead is called with the generated sensory.sight.
LeadTextSettles(r, outcome, ok) ==
    LET run == runs[r]
        lead == run.leads[run.i]
        res == StreamJsonResult(outcome)
        settled == [run EXCEPT !.calls = SettleCall(@, StLeadText, run.i, outcome, res)]
        c == CallImageStage(StLeadImage, run.i)
        after ==
            IF IsError(res)
            THEN EnterLoop([settled EXCEPT !.detailedLeads = KeepBasic(@, lead)],
                           AfterFailedLead(run.i))
            ELSE IF c.request
            THEN [settled EXCEPT !.textDetails = TextDetails(lead),
                                 !.calls = Append(@, c), !.pc = "leadImage"]
            ELSE EnterLoop([settled EXCEPT
                              !.calls = Append(@, c),
                              !.detailedLeads =
                                 Append(@, DetailedLead(lead, TextDetails(lead), c.result))],
                           run.i + 1)
    IN  /\ run.pc = "leadText"
        /\ IF after.pc = "leadImage"
           THEN SetRun(r, after) /\ UNCHANGED <<loadingMessage, db>>
           ELSE FullGoesOn(r, after, ok)
        /\ UNCHANGED <<state, localArchives, clock, nRuns, Others>>

\* The detail-image request of lead i settles: the detailed lead is pushed.
LeadImageSettles(r, outcome, ok) ==
    LET run == runs[r]
        lead == run.leads[run.i]
        res == ImageStageResult(outcome, LeadPayload)
        settled == [run EXCEPT !.calls = SettleCall(@, StLeadImage, run.i, outcome, res),
                               !.textDetails = NoDetails]
        pushed == IF IsError(res) THEN KeepBasic(settled.detailedLeads, lead)
                  ELSE Append(settled.detailedLeads,
                              DetailedLead(lead, run.textDetails, res))
    IN  /\ run.pc = "leadImage"
        /\ FullGoesOn(r, EnterLoop([settled EXCEPT !.detailedLeads = pushed], run.i + 1), ok)
        /\ UNCHANGED <<state, localArchives, clock, nRuns, Others>>

\* The save of Full mode has settled: loadLocalArchives is called and
\* awaited, or the rejection goes to the catch block.
SaveFullResume(r) ==
    LET run == runs[r]
    IN  /\ run.pc = "saveFull"
        /\ IF run.saveOk
           THEN SetRun(r, [run EXCEPT !.pc = "loadFull"]) /\ UNCHANGED state
           ELSE Abort(r, run)
        /\ UNCHANGED <<loadingMessage, localArchives, db, clock, nRuns, Others>>

\* ------------------------------------------------------------- Interactive
\* setState(prev => prev.transmission?.id === transmission.id
\*                   ? { ...prev, transmission: updated } : prev)
PatchHeader(prev, transmission, updated) ==
    IF prev.transmission # NoTransmission /\ prev.transmission.id = transmission.id
    THEN [prev EXCEPT !.transmission = updated]
    ELSE prev

\* The save of Interactive mode has settled: the header is patched into the
\* displayed Transmission and loadLocalArchives is called and awaited, or
\* the rejection goes to the catch block.
SaveResume(r) ==
    LET run == runs[r]
    IN  /\ run.pc \in {"savePatch", "saveNoPatch"}
        /\ IF ~run.saveOk
           THEN Abort(r, run)
           ELSE /\ SetRun(r, [run EXCEPT !.pc = "reload"])
                /\ state' = IF run.pc = "savePatch"
                            THEN PatchHeader(state, run.t, run.updated)
                            ELSE state
        /\ UNCHANGED <<loadingMessage, localArchives, db, clock, nRuns, Others>>

\* loadLocalArchives: setLocalArchives(await getAllTransmissions()), its
\* failure caught and logged.
LoadLocalArchives(ok) == IF ok THEN GetAllTransmissions(db) ELSE localArchives

\* The awaited loadLocalArchives has settled.  Interactive mode is done;
\* Full mode displays the Transmission.
ReloadResume(r, ok) ==
    LET run == runs[r]
    IN  /\ run.pc \in {"reload", "loadFull"}
        /\ localArchives' = LoadLocalArchives(ok)
        /\ state' = IF run.pc = "loadFull"
                    THEN [transmission |-> run.t, status |-> "viewing", error |-> Undefined]
                    ELSE state
        /\ SetRun(r, IdleRun)
        /\ UNCHANGED <<loadingMessage, db, clock, nRuns, Others>>

\* ------------------------------------------------------------- setup screen
OnSetupScreen == state.status = "setup" /\ ~showKeyModal

\* The Connect_API_Key button.
ConnectKey ==
    /\ OnSetupScreen
    /\ ~hasApiKey
    /\ showKeyModal' = TRUE
    /\ UNCHANGED <<apiKey, hasApiKey, user, isBulkGenerating, state, loadingMessage,
                   localArchives, pendingLoads, db, clock, nRuns, runs, edits, ViewerVars, streams, Remote>>

\* The modal's CANCEL and X buttons.
CloseKeyModal ==
    /\ showKeyModal
    /\ showKeyModal' = FALSE
    /\ UNCHANGED <<apiKey, hasApiKey, user, isBulkGenerating, state, loadingMessage,
                   localArchives, pendingLoads, db, clock, nRuns, runs, edits, ViewerVars, streams, Remote>>

HandleManualKeySubmit(key) ==
    /\ showKeyModal
    /\ apiKey' = key
    /\ hasApiKey' = TRUE
    /\ showKeyModal' = FALSE
    /\ UNCHANGED <<user, isBulkGenerating, state, loadingMessage, localArchives,
                   pendingLoads, db, clock, nRuns, runs, edits, ViewerVars, streams, Remote>>

HandleDisconnectKey ==
    /\ OnSetupScreen
    /\ hasApiKey
    /\ apiKey' = NoKey
    /\ hasApiKey' = FALSE
    /\ UNCHANGED <<user, showKeyModal, isBulkGenerating, state, loadingMessage,
                   localArchives, pendingLoads, db, clock, nRuns, runs, edits, ViewerVars, streams, Remote>>

\* The page is reloaded: what localStorage, IndexedDB and the bucket hold
\* stays, the component state is initialised again, the suspended handlers
\* are gone, and the mount effect runs checkManualKey and loadLocalArchives.
Reload ==
    /\ hasApiKey' = CheckManualKey(apiKey)
    /\ user' = FALSE
    /\ showKeyModal' = FALSE
    /\ isBulkGenerating' = FALSE
    /\ state' = [transmission |-> NoTransmission, status |-> "setup", error |-> Undefined]
    /\ loadingMessage' = MsgNone
    /\ localArchives' = <<>>
    /\ pendingLoads' = 1
    /\ runs' = [r \in RunIds |-> IdleRun]
    /\ activeLead' = NoActiveLead
    /\ dossier' = Unmounted
    /\ ops' = [o \in OpIds |-> IdleOp]
    /\ UNCHANGED <<apiKey, db, clock, nRuns, edits, nOps, streams, Remote>>

\* The Google_Sync button: the token client's callback calls setUser.
SignIn ==
    /\ OnSetupScreen
    /\ ~user
    /\ user' = TRUE
    /\ UNCHANGED <<apiKey, hasApiKey, showKeyModal, isBulkGenerating, state,
                   loadingMessage, localArchives, pendingLoads, db, clock, nRuns, runs,
                   edits, ViewerVars, streams, Remote>>

\* The Full_Gen checkbox.
ToggleBulk ==
    /\ OnSetupScreen
    /\ CanGenerate
    /\ isBulkGenerating' = ~isBulkGenerating
    /\ UNCHANGED <<apiKey, hasApiKey, user, showKeyModal, state, loadingMessage,
                   localArchives, pendingLoads, db, clock, nRuns, runs, edits, ViewerVars, streams, Remote>>

\* The Open button of a local archive.
OpenArchive(k) ==
    /\ OnSetupScreen
    /\ k \in DOMAIN localArchives
    /\ state' = [transmission |-> localArchives[k], status |-> "viewing",
                 error |-> Undefined]
    /\ UNCHANGED <<apiKey, hasApiKey, user, showKeyModal, isBulkGenerating,
                   loadingMessage, localArchives, pendingLoads, db, clock, nRuns, runs,
                   edits, ViewerVars, streams, Remote>>

\* An un-awaited loadLocalArchives (the mount effect, CLOSE_TRANSMISSION)
\* settles.
LoadSettles(ok) ==
    /\ pendingLoads > 0
    /\ pendingLoads' = pendingLoads - 1
    /\ localArchives' = LoadLocalArchives(ok)
    /\ UNCHANGED <<apiKey, hasApiKey, user, showKeyModal, isBulkGenerating, state,
                   loadingMessage, db, clock, nRuns, runs, edits, ViewerVars, streams, Remote>>

\* ------------------------------------------------------------- viewer
\* The viewer with nothing over it: the LeadDossier and the ApiKeyModal
\* are fixed full-screen overlays.
InViewer ==
    /\ state.status = "viewing"
    /\ state.transmission # NoTransmission
    /\ ~showKeyModal
    /\ activeLead = NoActiveLead

\* The CLOSE_TRANSMISSION button.
CloseTransmission ==
    /\ InViewer
    /\ pendingLoads < MaxPendingLoads
    /\ state' = [transmission |-> NoTransmission, status |-> "setup", error |-> Undefined]
    /\ pendingLoads' = pendingLoads + 1
    /\ UNCHANGED <<apiKey, hasApiKey, user, showKeyModal, isBulkGenerating,
                   loadingMessage, localArchives, db, clock, nRuns, runs, edits, ViewerVars, streams, Remote>>

\* leads.find(l => l.id === id): the index of the first lead with the id, 0
\* when there is none.
FindLead(leads, id) ==
    IF \E k \in DOMAIN leads : leads[k].id = id
    THEN CHOOSE k \in DOMAIN leads :
            leads[k].id = id /\ \A j \in DOMAIN leads : leads[j].id = id => k <= j
    ELSE 0

\* finalLead of handleUpdateLead.
FinalLeadKeepsDetails(leads, updatedLead) == updatedLead
FinalLead(leads, updatedLead) ==
    LET k == FindLead(leads, updatedLead.id)
    IN  IF k # 0 /\ (leads[k].name # updatedLead.name
                     \/ leads[k].description # updatedLead.description)
        THEN [updatedLead EXCEPT !.details = NoDetails]
        ELSE [updatedLead EXCEPT !.details = IF k = 0 THEN NoDetails ELSE leads[k].details]

\* updatedTransmission of handleUpdateLead.
UpdateLeadRetitled(transmission, updatedLead) ==
    LET finalLead == FinalLead(transmission.leads, updatedLead)
    IN  [transmission EXCEPT !.title = finalLead.name,
                             !.leads =
            [k \in DOMAIN transmission.leads |->
                IF transmission.leads[k].id = finalLead.id THEN finalLead
                ELSE transmission.leads[k]]]
UpdateLead(transmission, updatedLead) ==
    LET finalLead == FinalLead(transmission.leads, updatedLead)
    IN  [transmission EXCEPT !.leads =
            [k \in DOMAIN transmission.leads |->
                IF transmission.leads[k].id = finalLead.id THEN finalLead
                ELSE transmission.leads[k]]]

\* What the user can leave in the inputs of the LeadCard of lead j: the
\* lead's name and description, or new ones.
NameInputs(j) ==
    IF InViewer /\ j \in DOMAIN state.transmission.leads
    THEN {state.transmission.leads[j].name, EditedName}
    ELSE {}
DescriptionInputs(j) ==
    IF InViewer /\ j \in DOMAIN state.transmission.leads
    THEN {state.transmission.leads[j].description, EditedDescription}
    ELSE {}

\* The SAVE button of the LeadCard of lead j:
\* onUpdate({ ...lead, name, description: desc }).
HandleUpdateLead(j, name, description, ok) ==
    /\ InViewer
    /\ edits < MaxEdits
    /\ j \in DOMAIN state.transmission.leads
    /\ LET lead == state.transmission.leads[j]
           updatedLead == [lead EXCEPT !.name = name, !.description = description]
           updatedTransmission == UpdateLead(state.transmission, updatedLead)
       IN  /\ state' = [state EXCEPT !.transmission = updatedTransmission]
           /\ db' = SaveTransmission(db, updatedTransmission, ok)
    /\ edits' = edits + 1
    /\ UNCHANGED <<apiKey, hasApiKey, user, showKeyModal, isBulkGenerating,
                   loadingMessage, localArchives, pendingLoads, clock, nRuns, runs,
                   ViewerVars, streams, Remote>>

\* ------------------------------------------------------------- lead dossier
SensoryFields == {"sight", "sound", "smell", "vibe"}

\* The key handleRegenClick gives a field.
RegenKey(fieldType, sensoryField) ==
    IF fieldType = "sensory" THEN "sensory-" \o sensoryField ELSE fieldType

\* The sensory fields whose buttons the user clicks.
ClickedFields == {"sight", "smell"}

\* What the user asks to regenerate: <<fieldType, sensoryField>>.
RegenTargets ==
    {<<"sensory", f>> : f \in ClickedFields} \cup {<<"dossier", Undefined>>, <<"image", Undefined>>}

\* The detail fields the user edits.
EditTargets == {"smell", "expandedDescription"}

\* The stage function handleRegenerateDossierField calls for a field type.
RegenStage(fieldType) ==
    CASE fieldType = "sensory" -> StRegenSensory
      [] fieldType = "dossier" -> StRegenDossier
      [] fieldType = "image" -> StRegenImage

\* The value the service generates for invocation o, prompted with the
\* lead's name and description.
Regenerated(field, lead, o) == <<field, lead.name, lead.description, o>>

\* What the user types into the textarea of a detail field.
EditedText == <<"typed">>

\* The value of a detail field, by the name handleEditClick gives it.
DetailField(details, fieldName) ==
    IF fieldName = "expandedDescription" THEN details.expandedDescription
    ELSE details.sensory[fieldName]

SetDetailField(details, fieldName, value) ==
    IF fieldName = "expandedDescription"
    THEN [details EXCEPT !.expandedDescription = value]
    ELSE [details EXCEPT !.sensory[fieldName] = value]

\* The six attributes of a Details record.
Attributes == SensoryFields \cup {"expandedDescription", "imageUrl"}
Attribute(details, a) ==
    IF a = "imageUrl" THEN details.imageUrl ELSE DetailField(details, a)

\* updatedDetails of handleRegenerateDossierField: a copy of the Details of
\* the lead it was called with, with the new value of the one field; an
\* absent new image leaves the copy as it is.
UpdatedDetails(lead, fieldType, sensoryField, value) ==
    CASE fieldType = "sensory" -> [lead.details EXCEPT !.sensory[sensoryField] = value]
      [] fieldType = "dossier" -> [lead.details EXCEPT !.expandedDescription = value]
      [] fieldType = "image" ->
           IF value # Undefined THEN [lead.details EXCEPT !.imageUrl = value]
           ELSE lead.details

\* leads.map(l => l.id === id ? { ...l, details } : l)
WithDetails(transmission, id, details) ==
    [transmission EXCEPT !.leads =
        [k \in DOMAIN transmission.leads |->
            IF transmission.leads[k].id = id
            THEN [transmission.leads[k] EXCEPT !.details = details]
            ELSE transmission.leads[k]]]

\* leads.map(l => l.id === updatedLead.id ? updatedLead : l)
WithLead(transmission, updatedLead) ==
    [transmission EXCEPT !.leads =
        [k \in DOMAIN transmission.leads |->
            IF transmission.leads[k].id = updatedLead.id THEN updatedLead
            ELSE transmission.leads[k]]]

\* setState(prev => { if (!prev.transmission) return prev; ...
\*   saveTransmission(updatedTransmission); return { ...prev, transmission } })
\* with the outcome of the put request.
SetAndSave(updatedTransmission, ok) ==
    IF state.transmission = NoTransmission
    THEN UNCHANGED <<state, db>>
    ELSE /\ state' = [state EXCEPT !.transmission = updatedTransmission]
         /\ db' = SaveTransmission(db, updatedTransmission, ok)

\* The Details the displayed Transmission holds for the first lead with id.
DetailsInState(id) ==
    IF state.transmission = NoTransmission THEN NoDetails
    ELSE LET k == FindLead(state.transmission.leads, id)
         IN  IF k = 0 THEN NoDetails ELSE state.transmission.leads[k].details

\* setActiveLead(value): a LeadDossier is mounted when activeLead was null.
SetActiveLead(lead, details) ==
    /\ activeLead' = [lead |-> lead, details |-> details]
    /\ dossier' = IF activeLead = NoActiveLead THEN FreshDossier ELSE dossier

\* The LeadDossier is on screen with nothing over it.
InDossier ==
    /\ state.status = "viewing"
    /\ state.transmission # NoTransmission
    /\ ~showKeyModal
    /\ activeLead # NoActiveLead

SetOp(o, op) == ops' = [ops EXCEPT ![o] = op]

Unaffected ==
    <<apiKey, hasApiKey, user, isBulkGenerating, loadingMessage, localArchives,
      pendingLoads, clock, nRuns, runs, streams, Remote>>

\* handleInspectLead after both stages: the Details are attached to every
\* lead with the id, saved, and shown.  (isImageRevealed, which only drives
\* the scan animation, is left out.)
InspectFinish(o, op, imageUrl, ok) ==
    LET finalDetails == Details(op.textDetails, imageUrl)
    IN  /\ SetAndSave(WithDetails(state.transmission, op.lead.id, finalDetails), ok)
        /\ SetActiveLead([op.lead EXCEPT !.details = finalDetails], finalDetails)
        /\ SetOp(o, DoneOp)

\* The click on a LeadCard: the stored Details are shown, or the key modal,
\* or the detail text is requested and awaited.
HandleInspectLeadAnew(j) ==
    /\ InViewer
    /\ j \in DOMAIN state.transmission.leads
    /\ LET lead == state.transmission.leads[j]
           o == nOps + 1
           c == CallTextStage(StLeadText, j)
           op == IF IsError(c.result) THEN DoneOp
                 ELSE [IdleOp EXCEPT !.kind = "inspect", !.lead = lead, !.calls = <<c>>,
                                     !.pc = "inspectText"]
       IN  IF FALSE
           THEN /\ SetActiveLead(lead, lead.details)
                /\ UNCHANGED <<showKeyModal, ops, nOps>>
           ELSE IF ~CanGenerate
           THEN /\ showKeyModal' = TRUE
                /\ UNCHANGED <<activeLead, dossier, ops, nOps>>
           ELSE /\ nOps < MaxOps
                /\ SetActiveLead(lead, NoDetails)
                /\ nOps' = o
                /\ SetOp(o, op)
                /\ UNCHANGED showKeyModal
    /\ UNCHANGED <<state, db, edits, Unaffected>>

HandleInspectLead(j) ==
    /\ InViewer
    /\ j \in DOMAIN state.transmission.leads
    /\ LET lead == state.transmission.leads[j]
           o == nOps + 1
           c == CallTextStage(StLeadText, j)
           op == IF IsError(c.result) THEN DoneOp
                 ELSE [IdleOp EXCEPT !.kind = "inspect", !.lead = lead, !.calls = <<c>>,
                                     !.pc = "inspectText"]
       IN  IF lead.details # NoDetails
           THEN /\ SetActiveLead(lead, lead.details)
                /\ UNCHANGED <<showKeyModal, ops, nOps>>
           ELSE IF ~CanGenerate
           THEN /\ showKeyModal' = TRUE
                /\ UNCHANGED <<activeLead, dossier, ops, nOps>>
           ELSE /\ nOps < MaxOps
                /\ SetActiveLead(lead, NoDetails)
                /\ nOps' = o
                /\ SetOp(o, op)
                /\ UNCHANGED showKeyModal
    /\ UNCHANGED <<state, db, edits, Unaffected>>

\* The detail-text request of an inspection settles: a failure ends the
\* handler in its catch block; on success the text is shown and the image
\* stage is called with the generated sensory.sight.
InspectTextSettles(o, outcome, ok) ==
    LET op == ops[o]
        res == StreamJsonResult(outcome)
        c == CallImageStage(StLeadImage, op.calls[1].lead)
        textDetails == TextDetails(op.lead)
        shown == Details(textDetails, Undefined)
        settled == [op EXCEPT !.calls = SettleCall(@, StLeadText, op.calls[1].lead, outcome, res)]
        called == [settled EXCEPT !.calls = Append(@, c), !.textDetails = textDetails]
    IN  /\ op.pc = "inspectText"
        /\ IF IsError(res)
           THEN /\ SetOp(o, DoneOp)
                /\ UNCHANGED <<state, db, activeLead, dossier>>
           ELSE IF c.request
           THEN /\ SetActiveLead([op.lead EXCEPT !.details = shown], shown)
                /\ SetOp(o, [called EXCEPT !.pc = "inspectImage"])
                /\ UNCHANGED <<state, db>>
           ELSE InspectFinish(o, called, c.result, ok)
        /\ UNCHANGED <<showKeyModal, nOps, edits, Unaffected>>

\* The detail-image request of an inspection settles.
InspectImageSettles(o, outcome, ok) ==
    LET op == ops[o]
        res == ImageStageResult(outcome, LeadPayload)
        settled == [op EXCEPT !.calls = SettleCall(@, StLeadImage, op.calls[1].lead, outcome, res)]
    IN  /\ op.pc = "inspectImage"
        /\ InspectFinish(o, settled, res, ok)
        /\ UNCHANGED <<showKeyModal, nOps, edits, Unaffected>>

\* The X button of the LeadDossier: the component is unmounted, and what
\* its suspended handlers set later is set on no component.
CloseDossier ==
    /\ InDossier
    /\ activeLead' = NoActiveLead
    /\ dossier' = Unmounted
    /\ ops' = [o \in OpIds |-> [ops[o] EXCEPT !.live = FALSE]]
    /\ UNCHANGED <<state, db, showKeyModal, nOps, edits,
                   Unaffected>>

\* The three ways handleRegenerateDossierField goes on from its first
\* statements: it opens the key modal, it returns because the lead has no
\* Details (or nothing is displayed), or it calls the stage function of the
\* field.
RegenerateRejectsNothing(lead, transmission) == FALSE
RegenerateRejects(lead, transmission) ==
    lead.details = NoDetails \/ transmission = NoTransmission

RegenerateEntry(lead, canGenerate, transmission) ==
    IF ~canGenerate THEN "modal"
    ELSE IF RegenerateRejects(lead, transmission) THEN "rejected"
    ELSE "call"

\* The index of the first displayed lead with the id, 0 if there is none.
LeadIndex(id) ==
    IF state.transmission = NoTransmission THEN 0
    ELSE FindLead(state.transmission.leads, id)

\* What the regeneration stage of invocation o returns or throws for an
\* outcome of its request, and the new value of the field when it returns
\* one: result[fieldName], result.expandedDescription, or the data URI.
RegenResult(op, o, outcome) ==
    IF op.fieldType = "image"
    THEN ImageStageResult(outcome, LeadPayload \o ToString(o))
    ELSE StreamJsonResult(outcome)

RegenValue(op, o, res) ==
    IF op.fieldType = "image" THEN res
    ELSE Regenerated(IF op.fieldType = "sensory" THEN op.sensoryField
                     ELSE "dossier", op.lead, o)

\* Lines 705-719: the updated Details are attached to every displayed lead
\* with the id, saved, and shown in the dossier.
RegenerateWrite(op, value, ok) ==
    LET updatedDetails == UpdatedDetails(op.lead, op.fieldType, op.sensoryField, value)
    IN  /\ SetAndSave(WithDetails(state.transmission, op.lead.id, updatedDetails), ok)
        /\ activeLead' = [lead |-> [op.lead EXCEPT !.details = updatedDetails],
                          details |-> updatedDetails]

\* handleRegenClick after `await onRegenerate(...)`: the typing phase, then
\* a timer.  A handler called without the dossier is done.
AfterRegenerate(o, op, setsActive) ==
    /\ dossier' =
         IF op.live
         THEN [dossier EXCEPT !.isRegenerating = RegenKey(op.fieldType, op.sensoryField),
                              !.regenPhase = [field |-> RegenKey(op.fieldType, op.sensoryField),
                                              phase |-> "typing"]]
         ELSE IF setsActive /\ activeLead = NoActiveLead THEN FreshDossier
         ELSE dossier
    /\ SetOp(o, [op EXCEPT !.pc = IF op.kind = "direct" THEN "returned" ELSE "regenTyping"])

\* handleRegenerateDossierField is entered for the invocation whose record
\* is op (its lead, fieldType, sensoryField and canGenerate).
EnterRegenerate(o, op, ok) ==
    LET entry == RegenerateEntry(op.lead, op.canGenerate, state.transmission)
        c == CallStage(RegenStage(op.fieldType), LeadIndex(op.lead.id))
        called == [op EXCEPT !.calls = Append(@, c), !.before = DetailsInState(op.lead.id)]
    IN  CASE entry = "modal" ->
               /\ showKeyModal' = TRUE
               /\ AfterRegenerate(o, op, FALSE)
               /\ UNCHANGED <<state, db, activeLead>>
          [] entry = "rejected" ->
               /\ AfterRegenerate(o, op, FALSE)
               /\ UNCHANGED <<state, db, activeLead, showKeyModal>>
          [] entry = "call" /\ c.request ->
               /\ SetOp(o, [called EXCEPT !.pc = "regenCall"])
               /\ dossier' =
                    IF op.live
                    THEN [dossier EXCEPT !.isRegenerating =
                                            RegenKey(op.fieldType, op.sensoryField)]
                    ELSE dossier
               /\ UNCHANGED <<state, db, activeLead, showKeyModal>>
          [] entry = "call" /\ ~c.request /\ IsError(c.result) ->
               /\ AfterRegenerate(o, called, FALSE)
               /\ UNCHANGED <<state, db, activeLead, showKeyModal>>
          [] entry = "call" /\ ~c.request /\ ~IsError(c.result) ->
               /\ RegenerateWrite(called, c.result, ok)
               /\ AfterRegenerate(o, called, TRUE)
               /\ UNCHANGED showKeyModal

\* The [ regen ] buttons of the LeadDossier (handleRegenClick): the key
\* modal without a credential source, else the deleting phase and a timer.
HandleRegenClick(fieldType, sensoryField) ==
    LET key == RegenKey(fieldType, sensoryField)
        o == nOps + 1
    IN  /\ InDossier
        /\ activeLead.details # NoDetails
        /\ <<fieldType, sensoryField>> \in RegenTargets
        /\ CASE fieldType = "sensory" -> dossier.editingField # sensoryField
             [] fieldType = "dossier" -> dossier.editingField # "expandedDescription"
             [] fieldType = "image" -> activeLead.details.imageUrl # Undefined
        /\ dossier.isRegenerating # key
        /\ dossier.regenPhase.field # key
        /\ IF ~CanGenerate
           THEN /\ showKeyModal' = TRUE
                /\ UNCHANGED <<dossier, ops, nOps>>
           ELSE /\ nOps < MaxOps
                /\ nOps' = o
                /\ dossier' = [dossier EXCEPT !.regenPhase = [field |-> key, phase |-> "deleting"]]
                /\ SetOp(o, [IdleOp EXCEPT !.pc = "regenDelay", !.kind = "regen",
                                           !.lead = activeLead.lead, !.fieldType = fieldType,
                                           !.sensoryField = sensoryField,
                                           !.canGenerate = CanGenerate, !.live = TRUE])
                /\ UNCHANGED showKeyModal
        /\ UNCHANGED <<state, db, activeLead, edits, Unaffected>>

\* The timer of the deleting phase fires: handleRegenClick calls
\* onRegenerate(lead, fieldType, sensoryField) with the lead it was
\* rendered with.
RegenDelayDone(o, ok) ==
    /\ ops[o].pc = "regenDelay"
    /\ EnterRegenerate(o, ops[o], ok)
    /\ UNCHANGED <<nOps, edits, Unaffected>>

\* The request of a regeneration settles: a failure of a text stage is
\* caught and logged; otherwise the updated Details are written.
RegenSettles(o, outcome, ok) ==
    LET op == ops[o]
        c == op.calls[Len(op.calls)]
        res == RegenResult(op, o, outcome)
        settled == [op EXCEPT !.calls = SettleCall(@, c.stage, c.lead, outcome, res)]
    IN  /\ op.pc = "regenCall"
        /\ outcome \in (IF c.stage \in ImageStages THEN ImageOutcomes ELSE TextOutcomes)
        /\ IF IsError(res)
           THEN /\ AfterRegenerate(o, settled, FALSE)
                /\ UNCHANGED <<state, db, activeLead>>
           ELSE /\ RegenerateWrite(settled, RegenValue(op, o, res), ok)
                /\ AfterRegenerate(o, settled, TRUE)
        /\ UNCHANGED <<showKeyModal, nOps, edits, Unaffected>>

\* The timer of the typing phase fires: the finally block of
\* handleRegenClick.
RegenTypingDone(o) ==
    LET op == ops[o]
    IN  /\ op.pc = "regenTyping"
        /\ dossier' = IF op.live
                      THEN [dossier EXCEPT !.isRegenerating = "null",
                                           !.regenPhase = [field |-> "null", phase |-> "null"]]
                      ELSE dossier
        /\ SetOp(o, DoneOp)
        /\ UNCHANGED <<state, db, showKeyModal, activeLead, 
                       nOps, edits, Unaffected>>

\* handleRegenerateDossierField called with lead j of the displayed
\* Transmission, whatever the dossier offers.
RegenerateRequested(j, fieldType, sensoryField, ok) ==
    LET o == nOps + 1
        op == [IdleOp EXCEPT !.kind = "direct", !.lead = state.transmission.leads[j],
                             !.fieldType = fieldType, !.sensoryField = sensoryField,
                             !.canGenerate = CanGenerate]
    IN  /\ state.status = "viewing"
        /\ state.transmission # NoTransmission
        /\ ~showKeyModal
        /\ j \in DOMAIN state.transmission.leads
        /\ <<fieldType, sensoryField>> \in RegenTargets
        /\ nOps < MaxOps
        /\ nOps' = o
        /\ EnterRegenerate(o, op, ok)
        /\ UNCHANGED <<edits, Unaffected>>

\* The [ edit ] button of a detail field.
HandleEditClick(fieldName) ==
    /\ InDossier
    /\ activeLead.details # NoDetails
    /\ fieldName \in EditTargets
    /\ dossier.editingField # fieldName
    /\ dossier' = [dossier EXCEPT !.editingField = fieldName,
                                  !.editValue = DetailField(activeLead.details, fieldName)]
    /\ UNCHANGED <<state, db, showKeyModal, activeLead, ops,
                   nOps, edits, Unaffected>>

\* The SAVE button of a detail field (handleSaveEdit) and the onUpdate the
\* App gives the dossier: the dossier's lead, with the edited Details,
\* replaces every displayed lead with its id.  The value is what the
\* textarea holds: the one handleEditClick put there or what the user typed
\* over it.
HandleSaveEdit(value, ok) ==
    /\ InDossier
    /\ activeLead.details # NoDetails
    /\ dossier.editingField # "null"
    /\ edits < MaxEdits
    /\ value \in {dossier.editValue, EditedText}
    /\ LET updatedDetails ==
               SetDetailField(activeLead.details, dossier.editingField, value)
           updatedLead == [activeLead.lead EXCEPT !.details = updatedDetails]
       IN  /\ SetAndSave(WithLead(state.transmission, updatedLead), ok)
           /\ activeLead' = [lead |-> updatedLead, details |-> updatedDetails]
    /\ dossier' = [dossier EXCEPT !.editingField = "null"]
    /\ edits' = edits + 1
    /\ UNCHANGED <<showKeyModal, ops, nOps, Unaffected>>

HandleCancelEdit ==
    /\ InDossier
    /\ dossier.editingField # "null"
    /\ dossier' = [dossier EXCEPT !.editingField = "null"]
    /\ UNCHANGED <<state, db, showKeyModal, activeLead, ops,
                   nOps, edits, Unaffected>>

\* ------------------------------------------------------------- direct calls
\* The payload of the image a stage asks for.
Payload(stage) == IF stage = StHeader THEN HeaderPayload ELSE LeadPayload

\* What a stage function returns or throws for an outcome of its request.
StageResult(stage, outcome) ==
    IF stage \in ImageStages THEN ImageStageResult(outcome, Payload(stage))
    ELSE StreamJsonResult(outcome)

StageOutcomes(stage) == IF stage \in ImageStages THEN ImageOutcomes ELSE TextOutcomes

\* The lead a directly called stage is about: 0 for the stages of the
\* Transmission.
StageLead(stage) == IF stage \in StructureStages \cup {StHeader} THEN 0 ELSE 1

\* A caller invokes one exported stage function of gemini.ts and awaits it.
StageCall(r, stage) ==
    LET run == runs[r]
        lead == StageLead(stage)
    IN  /\ run.pc \in {"idle", "direct"}
        /\ InFlight(run) = {}
        /\ Len(run.calls) < MaxCalls
        /\ SetRun(r, [run EXCEPT !.pc = "direct", !.mode = "direct",
                                 !.calls = Append(@, CallStage(stage, lead))])
        /\ UNCHANGED <<state, loadingMessage, localArchives, db, clock, nRuns, Others>>

\* The request of the awaited stage function settles.
StageSettle(r, outcome) ==
    LET run == runs[r]
    IN  /\ run.pc = "direct"
        /\ InFlight(run) # {}
        /\ LET c == run.calls[Len(run.calls)]
           IN  /\ outcome \in StageOutcomes(c.stage)
               /\ SetRun(r, [run EXCEPT !.calls =
                     SettleCall(@, c.stage, c.lead, outcome, StageResult(c.stage, outcome))])
        /\ UNCHANGED <<state, loadingMessage, localArchives, db, clock, nRuns, Others>>

\* ------------------------------------------------------------- streamJson
\* JSON.parse's SyntaxError.  Its message is the engine's: one names the
\* offending position only, another quotes the start of the text.
ExcerptLen == 10
SyntaxErrorMessages(text) ==
    {"unexpected character",
     IF Len(text) <= ExcerptLen THEN text ELSE SubSeq(text, 1, ExcerptLen)}

\* The stage function's return value for the data streamJson returned:
\* generateLeads returns `data.leads || []`, generateTitleAndSetting the
\* data.
LeadsOrEmptyCounted(data) ==
    IF Len(Member(data, "leads").items) # 36 THEN JUndefined
    ELSE Member(data, "leads")
LeadsOrEmpty(data) ==
    IF Falsy(Member(data, "leads")) THEN JArray(<<>>) ELSE Member(data, "leads")
StageReturn(stage, data) ==
    IF stage = StRoster THEN LeadsOrEmpty(data) ELSE data

\* fullText += text
AccumulateLast(fullText, text) == text
Accumulate(fullText, text) == fullText \o text

\* if (text) { ...; if (onUpdate) onUpdate(fullText); }: the texts onUpdate
\* was called with, after a chunk with `text`.
UpdatedAlways(updates, onUpdate, text, fullText) == Append(updates, fullText)
Updated(updates, onUpdate, text, fullText) ==
    IF text # "" /\ onUpdate THEN Append(updates, fullText) ELSE updates

\* console.error("JSON parse error", e, cleanText): the texts logged.
ConsoleErrorSilent(logged, cleanText) == logged
ConsoleError(logged, cleanText) == Append(logged, cleanText)

SetStream(x, s) ==
    /\ streams' = [streams EXCEPT ![x] = s]
    /\ UNCHANGED <<apiKey, hasApiKey, user, showKeyModal, isBulkGenerating, state,
                   loadingMessage, localArchives, pendingLoads, db, clock, nRuns,
                   runs, edits, ViewerVars, Remote>>

\* streamJson is called: getAI() throws without a key, else the request is
\* issued and the stream is awaited.
StreamJsonCall(x) ==
    /\ streams[x].pc = "idle"
    /\ SetStream(x, IF GetAI = MissingCredential
                    THEN [streams[x] EXCEPT !.pc = "thrown",
                                            !.thrown = [error |-> MissingCredential,
                                                        message |-> ""]]
                    ELSE [streams[x] EXCEPT !.pc = "streaming", !.request = TRUE])

\* One turn of the for await loop: a chunk with text is appended to
\* fullText and onUpdate, if given, is called with fullText; a chunk
\* without text is skipped.
StreamChunk(x) ==
    LET s == streams[x]
        text == Head(s.chunks)
        fullText == Accumulate(s.fullText, text)
    IN  /\ s.pc = "streaming"
        /\ s.chunks # <<>>
        /\ SetStream(x, [s EXCEPT
                           !.chunks = Tail(@),
                           !.delivered = Append(@, text),
                           !.fullText = fullText,
                           !.updates = Updated(@, s.onUpdate, text, fullText)])

\* The stream or the request rejects: the error leaves streamJson.
StreamBreaks(x) ==
    /\ streams[x].pc = "streaming"
    /\ SetStream(x, [streams[x] EXCEPT !.pc = "thrown",
                                       !.chunks = <<>>,
                                       !.fullText = "",
                                       !.thrown = [error |-> TransportFailure,
                                                   message |-> ""]])

\* The stream has ended: fullText is cleaned and parsed.  The parsed value
\* is returned as it is, and the stage function returns in the same task; a
\* SyntaxError is logged with cleanText and thrown again.
StreamEnds(x) ==
    LET s == streams[x]
        cleanText == Clean(s.fullText)
        data == JsonParse(cleanText)
    IN  /\ s.pc = "streaming"
        /\ s.chunks = <<>>
        /\ IF data.ok
           THEN SetStream(x, [s EXCEPT !.pc = "returned",
                                       !.data = data.value,
                                       !.result = StageReturn(s.stage, data.value)])
           ELSE \E m \in SyntaxErrorMessages(cleanText) :
                   SetStream(x, [s EXCEPT !.pc = "thrown",
                                          !.logged = ConsoleError(@, cleanText),
                                          !.thrown = [error |-> MalformedGenerationOutput,
                                                      message |-> m]])

\* ------------------------------------------------------------- responses
\* A lead of a response of the roster stage.
JLead(i, category) ==
    JObject(<<JMember("id", JString(ToString(i))),
              JMember("name", JString("n" \o ToString(i))),
              JMember("description", JString("d" \o ToString(i))),
              JMember("category", JString(category))>>)

\* A response with n leads, spread evenly over the categories, or with the
\* last lead in the first category.
RosterObject(n, skewed) ==
    JObject(<<JMember("leads",
        JArray([i \in 1..n |->
                  JLead(i, IF skewed /\ i = n THEN CATEGORIES[1]
                           ELSE CATEGORIES[((i - 1) % 6) + 1])]))>>)

\* The numbers of leads of the responses: none, a few, and the 36 asked
\* for, one fewer, and 36 with seven in one category.
FullRoster == 36
LongRosterObjects ==
    {RosterObject(n, FALSE) : n \in {FullRoster - 1, FullRoster}}
    \cup {RosterObject(FullRoster, TRUE)}
RosterObjects == {RosterObject(n, FALSE) : n \in {0, 2}} \cup LongRosterObjects

\* Responses that parse but lack a member the schema requires.
NoLeadsObjects ==
    {JObject(<<>>),
     JObject(<<JMember("note", JString("no leads"))>>),
     JObject(<<JMember("leads", JLiteral("null"))>>)}
TitleObject ==
    JObject(<<JMember("title", JString("TITLE")),
              JMember("settingSummary", JString("SUMMARY"))>>)
TitleOnlyObject == JObject(<<JMember("title", JString("TITLE"))>>)
TitleObjects == {TitleObject, TitleOnlyObject}
SentObjects == RosterObjects \cup NoLeadsObjects \cup TitleObjects

\* Texts that are no JSON: prose, a response cut short, nothing.
BrokenTexts == {"Sorry, I cannot help with that.", "{\"leads\":[{\"id\":\"1\"", ""}

\* A body as the service wraps it: bare, in a fence with or without the
\* json tag and with or without newlines, in a fence that is not closed, or
\* in two fences.
Wrappings == {"bare", "fence", "json", "inline", "open", "double"}
Wrap(w, body) ==
    CASE w = "bare" -> body
      [] w = "fence" -> Fence \o Newline \o body \o Newline \o Fence
      [] w = "json" -> FenceJson \o Newline \o body \o Newline \o Fence \o Newline
      [] w = "inline" -> " " \o FenceJson \o body \o Fence
      [] w = "open" -> FenceJson \o Newline \o body
      [] w = "double" -> Fence \o Newline \o FenceJson \o Newline \o body
                           \o Newline \o Fence \o Newline \o Fence

\* The ways the service cuts a text into chunks: in one piece, after the
\* second character (inside a fence when there is one), in the middle, with
\* a chunk without text in between or at the end.
Pieces(text, k) == <<SubSeq(text, 1, k), SubSeq(text, k + 1, Len(text))>>
Chunkings(text) ==
    LET half == Len(text) \div 2
    IN  {<<text>>, <<text, "">>}
        \cup (IF Len(text) >= 2
              THEN {Pieces(text, 2), Pieces(text, half),
                    <<SubSeq(text, 1, half), "", SubSeq(text, half + 1, Len(text))>>}
              ELSE {<<>>})

\* A streamJson invocation about to be called, for a response of the
\* service.
NewStream(stage, sent, text, chunks, onUpdate) ==
    [IdleStream EXCEPT !.stage = stage, !.sent = sent, !.text = text,
                       !.chunks = chunks, !.onUpdate = onUpdate]

\* The stage whose schema the response is for.
StageOf(sent) == IF sent \in TitleObjects THEN StTitle ELSE StRoster

\* The responses of the service: every small body in every wrapping, the
\* long rosters in a json fence.
Responses ==
    {[sent |-> v, text |-> Wrap(w, Stringify(v))] :
        v \in SentObjects \ LongRosterObjects, w \in Wrappings}
    \cup {[sent |-> v, text |-> Wrap(w, Stringify(v))] :
        v \in LongRosterObjects, w \in {"json"}}
    \cup {[sent |-> JUndefined, text |-> Wrap(w, b)] : b \in BrokenTexts, w \in Wrappings}

\* ------------------------------------------------------------- prompts
\* The stage functions of the lead dossier called on their own, with what
\* they put into the request.

\* A category label that is none of the six.
UnknownCategory == "Unknown"
PromptCategories == {CATEGORIES[k] : k \in DOMAIN CATEGORIES} \cup {UnknownCategory}

\* focusDirective of generateLeadInspectionImage: switch (lead.category).
InspectionFocusNoEvents(category) ==
    CASE category = "Locations" ->
           "Wide or medium shot of the environment/location. Architecture, mood, lighting. NO central character. Environmental focus."
      [] category = "Objects" ->
           "Close-up product shot or macro detail of the object. High texture. Object is the sole subject. No people."
      [] OTHER ->
           "Character portrait or group shot. Distinct cyberpunk fashion, expressive, moody lighting. Focus on the individual(s)."
InspectionFocus(category) ==
    CASE category = "Locations" ->
           "Wide or medium shot of the environment/location. Architecture, mood, lighting. NO central character. Environmental focus."
      [] category = "Objects" ->
           "Close-up product shot or macro detail of the object. High texture. Object is the sole subject. No people."
      [] category = "Events" ->
           "Dynamic scene, active situation, implied motion. Narrative focus."
      [] OTHER ->
           "Character portrait or group shot. Distinct cyberpunk fashion, expressive, moody lighting. Focus on the individual(s)."

\* focusDirective of regenerateLeadImage: its own switch (lead.category).
RegenerationFocus(category) ==
    CASE category = "Locations" ->
           "Wide or medium shot of the environment/location. Architecture, mood, lighting. NO central character. Environmental focus."
      [] category = "Objects" ->
           "Close-up product shot or macro detail of the object. High texture. Object is the sole subject. No people."
      [] category = "Events" ->
           "Dynamic scene, active situation, implied motion. Narrative focus."
      [] OTHER ->
           "Character portrait or group shot. Distinct cyberpunk fashion, expressive, moody lighting. Focus on the individual(s)."

\* The sensory record of a lead's Details: its keys in the order of the
\* object, and the values the fields have in the model.
SensoryOrder == <<"sight", "sound", "smell", "vibe">>
SensoryValues == {"neon", "rain"}
Sensories == [SensoryFields -> SensoryValues]

\* lines.join('\n')
RECURSIVE JoinLines(_)
JoinLines(lines) ==
    IF lines = <<>> THEN ""
    ELSE IF Len(lines) = 1 THEN lines[1]
    ELSE lines[1] \o Newline \o JoinLines(Tail(lines))

\* otherFields of regenerateSensoryField: Object.entries(currentSensory)
\*   .filter(([key]) => key !== fieldName).map(([key, val]) => `${key}: ${val}`)
\*   .join('\n')
OtherFieldsUnfiltered(currentSensory, fieldName) ==
    JoinLines([k \in DOMAIN SensoryOrder |->
                  SensoryOrder[k] \o ": " \o currentSensory[SensoryOrder[k]]])
OtherFields(currentSensory, fieldName) ==
    LET Other(key) == key # fieldName
        keys == SelectSeq(SensoryOrder, Other)
    IN  JoinLines([k \in DOMAIN keys |-> keys[k] \o ": " \o currentSensory[keys[k]]])

\* A call of one of the three functions: the lead's category, the field and
\* the sensory record it was given, the directive and the sensory context
\* of its prompt, whether the request was issued, and how the call ended.
IdleRequest ==
    [fn |-> "none", category |-> "", fieldName |-> "", sensory |-> <<>>,
     focusDirective |-> "", otherFields |-> "", request |-> FALSE,
     pc |-> "pending", data |-> JUndefined, result |-> JUndefined, imageUrl |-> Undefined]

\* An image function: the directive is chosen, then getAI() is called inside
\* the try block; without a key the function returns undefined.
ImageRequest(fn, category, focusDirective) ==
    [IdleRequest EXCEPT !.fn = fn, !.category = category,
                        !.focusDirective = focusDirective,
                        !.request = GetAI # MissingCredential,
                        !.pc = IF GetAI = MissingCredential THEN "returned" ELSE "pending"]

PromptVars ==
    <<apiKey, hasApiKey, user, showKeyModal, isBulkGenerating, state, loadingMessage,
      localArchives, pendingLoads, db, clock, nRuns, runs, edits, ViewerVars, streams,
      cloud, history>>

\* No call is awaited and another one can be made.
CanCall ==
    /\ Len(requests) < MaxRequests
    /\ \A k \in DOMAIN requests : requests[k].pc # "pending"

GenerateLeadInspectionImageCall(category) ==
    /\ CanCall
    /\ requests' = Append(requests,
                     ImageRequest(StLeadImage, category, InspectionFocus(category)))
    /\ UNCHANGED PromptVars

RegenerateLeadImageCall(category) ==
    /\ CanCall
    /\ requests' = Append(requests,
                     ImageRequest(StRegenImage, category, RegenerationFocus(category)))
    /\ UNCHANGED PromptVars

\* regenerateSensoryField up to its await: streamJson throws without a key.
RegenerateSensoryFieldCall(fieldName, currentSensory) ==
    /\ CanCall
    /\ requests' = Append(requests,
         [IdleRequest EXCEPT
             !.fn = StRegenSensory, !.category = CATEGORIES[1],
             !.fieldName = fieldName, !.sensory = currentSensory,
             !.otherFields = OtherFields(currentSensory, fieldName),
             !.request = GetAI # MissingCredential,
             !.pc = IF GetAI = MissingCredential THEN "thrown" ELSE "pending"])
    /\ UNCHANGED PromptVars

\* What the service answers to regenerateSensoryField: an object with one
\* sensory field, the one asked for or another one.
SensoryResponses == {JObject(<<JMember(f, JString("fresh " \o f))>>) : f \in SensoryFields}

\* return result[fieldName]
ResultFieldFirst(result, fieldName) ==
    IF result.kind = "object" /\ result.items # <<>>
    THEN [result.items[1] EXCEPT !.key = ""] ELSE JUndefined
ResultField(result, fieldName) == Member(result, fieldName)

\* The awaited streamJson of regenerateSensoryField settles.
SensoryRequestSettles(k, outcome, data) ==
    /\ k \in DOMAIN requests
    /\ requests[k].pc = "pending"
    /\ requests[k].fn = StRegenSensory
    /\ requests' = [requests EXCEPT ![k] =
          IF IsError(StreamJsonResult(outcome))
          THEN [@ EXCEPT !.pc = "thrown"]
          ELSE [@ EXCEPT !.pc = "returned", !.data = data,
                         !.result = ResultField(data, requests[k].fieldName)]]
    /\ UNCHANGED PromptVars

\* The request of an image function settles.
ImageRequestSettles(k, outcome) ==
    /\ k \in DOMAIN requests
    /\ requests[k].pc = "pending"
    /\ requests[k].fn \in ImageStages
    /\ requests' = [requests EXCEPT ![k] =
          [@ EXCEPT !.pc = "returned", !.imageUrl = ImageStageResult(outcome, LeadPayload)]]
    /\ UNCHANGED PromptVars

\* ------------------------------------------------------------- cloud.ts
\* The manifest item uploadTransmissionToCloud writes for a Transmission.
ManifestItem(t) ==
    [id |-> t.id, title |-> t.title, summary |-> t.settingSummary,
     createdAt |-> t.createdAt, filename |-> "transmission_" \o ToString(t.id) \o ".json.gz"]

\* The Transmissions of the archive the master uploads.
CloudIds == 1..MaxCloudIds
Uploadable(id) == NewTransmission(id, <<>>, Undefined)

\* The outcomes of a fetch: a response with an ok status, a response with
\* an error status, and a rejection (the network failed).
FetchOutcomes == {"ok", "status", "network"}

\* fetchCloudManifest: the items of the manifest file, [] when the fetch
\* rejects, answers with an error status or there is no file.
FetchCloudManifestStrict(outcome) == cloud.manifest
FetchCloudManifest(outcome) ==
    IF outcome = "ok" /\ cloud.exists THEN cloud.manifest ELSE <<>>

\* currentManifest.filter(i => i.id !== transmission.id), then
\* unshift(item).
NewManifestAppended(currentManifest, t) ==
    LET Other(i) == i.id # t.id
    IN  Append(SelectSeq(currentManifest, Other), ManifestItem(t))
NewManifest(currentManifest, t) ==
    LET Other(i) == i.id # t.id
    IN  <<ManifestItem(t)>> \o SelectSeq(currentManifest, Other)

\* An invocation of uploadTransmissionToCloud: the Transmission, where the
\* function is, the manifest it is about to write, the manifest file as
\* it was when the function was called, and how its fetch of the manifest
\* and its POST of the new one went.
Upload(t) ==
    [t |-> t, pc |-> "file", newManifest |-> <<>>,
     before |-> IF cloud.exists THEN cloud.manifest ELSE <<>>,
     fetched |-> "none", posted |-> "none"]

SetUpload(u, upload) == cloud' = [cloud EXCEPT !.uploads[u] = upload]

CloudVars ==
    <<apiKey, hasApiKey, user, showKeyModal, isBulkGenerating, state, loadingMessage,
      localArchives, pendingLoads, db, clock, nRuns, runs, edits, ViewerVars, streams,
      requests, history>>

\* The upload button of an archive, shown to the signed-in master, and the
\* confirm dialog: uploadTransmissionToCloud is called and posts the file.
HandleCloudUpload(id) ==
    /\ user
    /\ state.status = "setup"
    /\ Len(cloud.uploads) < MaxUploads
    /\ cloud' = [cloud EXCEPT !.uploads = Append(@, Upload(Uploadable(id)))]
    /\ UNCHANGED CloudVars

\* The POST of the file settles: an error status or a rejection throws,
\* else fetchCloudManifest is called and awaited.
FileUploadSettles(u, outcome) ==
    /\ u \in DOMAIN cloud.uploads
    /\ cloud.uploads[u].pc = "file"
    /\ SetUpload(u, [cloud.uploads[u] EXCEPT
                        !.pc = IF outcome = "ok" THEN "manifest" ELSE "thrown"])
    /\ UNCHANGED CloudVars

\* fetchCloudManifest settles: the new manifest is built and posted.
ManifestFetchSettles(u, outcome) ==
    /\ u \in DOMAIN cloud.uploads
    /\ cloud.uploads[u].pc = "manifest"
    /\ SetUpload(u, [cloud.uploads[u] EXCEPT
                        !.pc = "post",
                        !.fetched = outcome,
                        !.newManifest = NewManifest(FetchCloudManifest(outcome),
                                                    cloud.uploads[u].t)])
    /\ UNCHANGED CloudVars

\* The POST of the manifest settles: `await fetch(...)` throws when the
\* fetch rejects; the status of the response is not looked at.
ManifestPostSettles(u, outcome) ==
    /\ u \in DOMAIN cloud.uploads
    /\ cloud.uploads[u].pc = "post"
    /\ cloud' = CASE outcome = "ok" ->
                       [cloud EXCEPT !.exists = TRUE,
                                     !.manifest = cloud.uploads[u].newManifest,
                                     !.uploads[u].pc = "done",
                                     !.uploads[u].posted = outcome]
                  [] outcome = "status" ->
                       [cloud EXCEPT !.uploads[u].pc = "done", !.uploads[u].posted = outcome]
                  [] outcome = "network" ->
                       [cloud EXCEPT !.uploads[u].pc = "thrown", !.uploads[u].posted = outcome]
    /\ UNCHANGED CloudVars

\* ------------------------------------------------------------- cloud loads
ErrDownload == "Download Failed."

\* What response.json() of fetchCloudTransmission gives for the file of a
\* manifest item: the Transmission that was uploaded, or whatever else the
\* public bucket holds under the name, here the JSON value null.
FileKinds == {"uploaded", "null"}
CloudFile(item, kind) == IF kind = "uploaded" THEN Uploadable(item.id) ELSE NoTransmission

\* The outcomes of fetchCloudTransmission's requests: FetchOutcomes, and a
\* body that cannot be decompressed or parsed.
CloudLoadOutcomes == FetchOutcomes \cup {"malformed"}

\* store.put(value) throws a DataError for a value that has no key at the
\* key path 'id'; saveTransmission's promise is then rejected.
Storable(t) == t # NoTransmission

\* The catch block of handleCloudLoad.
CloudCatchState(prev) == [prev EXCEPT !.status = "setup", !.error = ErrDownload]

SetLoad(l, load) == cloud' = [cloud EXCEPT !.loads[l] = load]

LoadVars ==
    <<apiKey, hasApiKey, user, showKeyModal, isBulkGenerating, pendingLoads, clock,
      nRuns, runs, edits, ViewerVars, streams, requests, history>>

\* The Download button of a cloud archive: the state goes to 'loading' and
\* the file is fetched.
HandleCloudLoad(k) ==
    /\ OnSetupScreen
    /\ cloud.exists
    /\ k \in DOMAIN cloud.manifest
    /\ Len(cloud.loads) < MaxLoads
    /\ state' = [state EXCEPT !.status = "loading"]
    /\ loadingMessage' = Msg(">> DOWNLOADING ENCRYPTED PACKET FROM CLOUD STORAGE...")
    /\ cloud' = [cloud EXCEPT !.loads =
                    Append(@, [pc |-> "fetch", item |-> cloud.manifest[k],
                               t |-> NoTransmission, saveOk |-> TRUE])]
    /\ UNCHANGED <<localArchives, db, LoadVars>>

\* fetchCloudTransmission settles: a failure goes to the catch block; else
\* saveTransmission(t) is called and awaited.
CloudFetchSettles(l, outcome, kind, ok) ==
    /\ l \in DOMAIN cloud.loads
    /\ cloud.loads[l].pc = "fetch"
    /\ IF outcome # "ok"
       THEN /\ state' = CloudCatchState(state)
            /\ SetLoad(l, [cloud.loads[l] EXCEPT !.pc = "thrown"])
            /\ db' = db
       ELSE LET t == CloudFile(cloud.loads[l].item, kind)
            IN  /\ db' = SaveTransmission(db, t, ok /\ Storable(t))
                /\ SetLoad(l, [cloud.loads[l] EXCEPT !.pc = "save", !.t = t,
                                                     !.saveOk = ok /\ Storable(t)])
                /\ state' = state
    /\ UNCHANGED <<loadingMessage, localArchives, LoadVars>>

\* The save of the downloaded Transmission settles: a rejection goes to
\* the catch block; else loadLocalArchives is called and awaited.
CloudSaveResumeUnawaited(l) ==
    /\ l \in DOMAIN cloud.loads
    /\ cloud.loads[l].pc = "save"
    /\ SetLoad(l, [cloud.loads[l] EXCEPT !.pc = "reload"])
    /\ state' = state
    /\ UNCHANGED <<loadingMessage, localArchives, db, LoadVars>>
CloudSaveResume(l) ==
    /\ l \in DOMAIN cloud.loads
    /\ cloud.loads[l].pc = "save"
    /\ IF cloud.loads[l].saveOk
       THEN /\ SetLoad(l, [cloud.loads[l] EXCEPT !.pc = "reload"])
            /\ state' = state
       ELSE /\ SetLoad(l, [cloud.loads[l] EXCEPT !.pc = "thrown"])
            /\ state' = CloudCatchState(state)
    /\ UNCHANGED <<loadingMessage, localArchives, db, LoadVars>>

\* The awaited loadLocalArchives settles: the downloaded Transmission is
\* displayed.
CloudReloadResume(l, ok) ==
    /\ l \in DOMAIN cloud.loads
    /\ cloud.loads[l].pc = "reload"
    /\ localArchives' = LoadLocalArchives(ok)
    /\ state' = [transmission |-> cloud.loads[l].t, status |-> "viewing",
                 error |-> Undefined]
    /\ SetLoad(l, [cloud.loads[l] EXCEPT !.pc = "done"])
    /\ UNCHANGED <<loadingMessage, db, LoadVars>>

\* ------------------------------------------------------------- db.ts on its own
\* The Transmissions saved: each id in two versions, as first saved and as
\* saved again with its header image.
DbIds == 1..MaxDbIds
DbVersions(id) ==
    {NewTransmission(id, <<>>, Undefined), NewTransmission(id, <<>>, DataUrl(HeaderPayload))}

DbVars ==
    <<apiKey, hasApiKey, user, showKeyModal, isBulkGenerating, state, loadingMessage,
      pendingLoads, clock, nRuns, runs, edits, ViewerVars, streams, requests, cloud>>

\* await saveTransmission(t): the put request succeeds or fails.
SaveCall(t, ok) ==
    /\ Len(history) < MaxDbCalls
    /\ db' = SaveTransmission(db, t, ok)
    /\ history' = Append(history, [fn |-> "save", id |-> t.id, t |-> t, ok |-> ok])
    /\ UNCHANGED <<localArchives, DbVars>>

\* await deleteTransmission(id): the delete request succeeds or fails.
DeleteCall(id, ok) ==
    /\ Len(history) < MaxDbCalls
    /\ db' = DeleteTransmission(db, id, ok)
    /\ history' = Append(history, [fn |-> "delete", id |-> id, t |-> NoTransmission,
                                   ok |-> ok])
    /\ UNCHANGED <<localArchives, DbVars>>

\* setLocalArchives(await getAllTransmissions()).
GetAllCall(ok) ==
    /\ localArchives' = LoadLocalArchives(ok)
    /\ UNCHANGED <<db, history, DbVars>>

\* ------------------------------------------------------------- specifications
\* The application: a session in which a key, once connected, stays.
Next ==
    \/ HandleGenerate
    \/ \E r \in RunIds, o \in TextOutcomes : TitleSettles(r, o)
    \/ \E r \in RunIds, o \in TextOutcomes : ExpositionSettles(r, o)
    \/ \E r \in RunIds, o \in TextOutcomes, roster \in Rosters, ok \in SaveOutcomes :
          RosterSettles(r, o, roster, ok)
    \/ \E r \in RunIds, o \in ImageOutcomes, ok \in SaveOutcomes : HeaderSettles(r, o, ok)
    \/ \E r \in RunIds, o \in TextOutcomes, ok \in SaveOutcomes : LeadTextSettles(r, o, ok)
    \/ \E r \in RunIds, o \in ImageOutcomes, ok \in SaveOutcomes : LeadImageSettles(r, o, ok)
    \/ \E r \in RunIds : SaveFullResume(r)
    \/ \E r \in RunIds : SaveResume(r)
    \/ \E r \in RunIds, ok \in LoadOutcomes : ReloadResume(r, ok)
    \/ ConnectKey
    \/ CloseKeyModal
    \/ \E key \in KeyInputs : HandleManualKeySubmit(key)
    \/ ToggleBulk
    \/ \E k \in 1..MaxRuns : OpenArchive(k)
    \/ \E ok \in LoadOutcomes : LoadSettles(ok)
    \/ CloseTransmission
    \/ \E j \in 1..MaxLeads, ok \in SaveOutcomes :
          \E name \in NameInputs(j), description \in DescriptionInputs(j) :
            HandleUpdateLead(j, name, description, ok)

Spec == Init /\ [][Next]_vars

\* The application when every request to the generative service and every
\* request to the store that was issued settles.
Settling ==
    /\ WF_vars(\E r \in RunIds, o \in TextOutcomes : TitleSettles(r, o))
    /\ WF_vars(\E r \in RunIds, o \in TextOutcomes : ExpositionSettles(r, o))
    /\ WF_vars(\E r \in RunIds, o \in TextOutcomes, roster \in Rosters, ok \in SaveOutcomes :
                  RosterSettles(r, o, roster, ok))
    /\ WF_vars(\E r \in RunIds, o \in ImageOutcomes, ok \in SaveOutcomes :
                  HeaderSettles(r, o, ok))
    /\ WF_vars(\E r \in RunIds, o \in TextOutcomes, ok \in SaveOutcomes :
                  LeadTextSettles(r, o, ok))
    /\ WF_vars(\E r \in RunIds, o \in ImageOutcomes, ok \in SaveOutcomes :
                  LeadImageSettles(r, o, ok))
    /\ WF_vars(\E r \in RunIds : SaveFullResume(r))
    /\ WF_vars(\E r \in RunIds : SaveResume(r))
    /\ WF_vars(\E r \in RunIds, ok \in LoadOutcomes : ReloadResume(r, ok))

SpecSettling == Init /\ [][Next]_vars /\ Settling

\* Full_Gen runs with a connected key, until one is displayed:
\* generateFullTransmission and the part of handleGenerate around it.
InitFull == apiKey = LongKey /\ Mounted(TRUE)

NextFull ==
    \/ HandleGenerate
    \/ \E r \in RunIds, o \in TextOutcomes : TitleSettles(r, o)
    \/ \E r \in RunIds, o \in TextOutcomes : ExpositionSettles(r, o)
    \/ \E r \in RunIds, o \in TextOutcomes, roster \in Rosters, ok \in SaveOutcomes :
          RosterSettles(r, o, roster, ok)
    \/ \E r \in RunIds, o \in ImageOutcomes, ok \in SaveOutcomes : HeaderSettles(r, o, ok)
    \/ \E r \in RunIds, o \in TextOutcomes, ok \in SaveOutcomes : LeadTextSettles(r, o, ok)
    \/ \E r \in RunIds, o \in ImageOutcomes, ok \in SaveOutcomes : LeadImageSettles(r, o, ok)
    \/ \E r \in RunIds : SaveFullResume(r)
    \/ \E r \in RunIds, ok \in LoadOutcomes : ReloadResume(r, ok)
    \/ \E ok \in LoadOutcomes : LoadSettles(ok)

SpecFull == InitFull /\ [][NextFull]_vars

\* The viewer opened on a Transmission of the local archive: its first lead
\* was inspected and has Details with an image, the others were not.
StoredLead(lead, kind) ==
    CASE kind = "basic" -> lead
      [] kind = "text" -> [lead EXCEPT !.details = Details(TextDetails(lead), Undefined)]
      [] kind = "image" ->
           [lead EXCEPT !.details = Details(TextDetails(lead), DataUrl(LeadPayload))]

StoredTransmissions ==
    {NewTransmission(1, [i \in DOMAIN roster |-> StoredLead(roster[i], kinds[i])],
                     DataUrl(HeaderPayload)) :
        roster \in {r \in Rosters : Len(r) = MaxLeads},
        kinds \in {[i \in 1..MaxLeads |-> IF i = 1 THEN "image" ELSE "basic"]}}

\* The state after the mount effect's load has settled and the Open button
\* of the archive was clicked.
Viewing(t) ==
    /\ hasApiKey = CheckManualKey(apiKey)
    /\ user = FALSE
    /\ showKeyModal = FALSE
    /\ isBulkGenerating = FALSE
    /\ state = [transmission |-> t, status |-> "viewing", error |-> Undefined]
    /\ loadingMessage = MsgNone
    /\ localArchives = <<t>>
    /\ pendingLoads = 0
    /\ db = Put(<<>>, t)
    /\ clock = 0
    /\ nRuns = 0
    /\ runs = [r \in RunIds |-> IdleRun]
    /\ edits = 0
    /\ activeLead = NoActiveLead
    /\ dossier = Unmounted
    /\ ops = [o \in OpIds |-> IdleOp]
    /\ nOps = 0
    /\ streams = [x \in StreamIds |-> IdleStream]
    /\ Untouched

InitViewer == apiKey \in {NoKey, LongKey} /\ \E t \in StoredTransmissions : Viewing(t)

NextViewer ==
    \/ \E j \in 1..MaxLeads : HandleInspectLead(j)
    \/ \E o \in OpIds, outcome \in TextOutcomes, ok \in SaveOutcomes :
          InspectTextSettles(o, outcome, ok)
    \/ \E o \in OpIds, outcome \in ImageOutcomes, ok \in SaveOutcomes :
          InspectImageSettles(o, outcome, ok)
    \/ CloseDossier
    \/ \E target \in RegenTargets : HandleRegenClick(target[1], target[2])
    \/ \E o \in OpIds, ok \in SaveOutcomes : RegenDelayDone(o, ok)
    \/ \E o \in OpIds, outcome \in TextOutcomes \cup ImageOutcomes, ok \in SaveOutcomes :
          RegenSettles(o, outcome, ok)
    \/ \E o \in OpIds : RegenTypingDone(o)
    \/ \E fieldName \in EditTargets : HandleEditClick(fieldName)
    \/ \E value \in {dossier.editValue, EditedText}, ok \in SaveOutcomes :
          HandleSaveEdit(value, ok)
    \/ HandleCancelEdit
    \/ CloseKeyModal
    \/ \E key \in KeyInputs : HandleManualKeySubmit(key)
    \/ \E j \in 1..MaxLeads, ok \in SaveOutcomes :
          \E name \in NameInputs(j), description \in DescriptionInputs(j) :
            HandleUpdateLead(j, name, description, ok)

SpecViewer == InitViewer /\ [][NextViewer]_vars

\* The viewer, with handleRegenerateDossierField also called for leads and
\* fields the dossier offers no button for.
NextHandler ==
    \/ NextViewer
    \/ \E j \in 1..MaxLeads, target \in RegenTargets, ok \in SaveOutcomes :
          RegenerateRequested(j, target[1], target[2], ok)

SpecHandler == InitViewer /\ [][NextHandler]_vars

\* streamJson called twice for the same response of the service, cut into
\* chunks the first time and in one piece the second time, by a stage
\* function with or without onUpdate.
InitStream ==
    /\ apiKey \in {NoKey, LongKey}
    /\ MountedApp(FALSE)
    /\ Untouched
    /\ \E r \in Responses : \E c \in Chunkings(r.text) : \E u \in BOOLEAN :
          streams = [x \in StreamIds |->
                        NewStream(StageOf(r.sent), r.sent, r.text,
                                  IF x = 1 THEN c ELSE <<r.text>>, x = 1 \/ u)]

NextStream ==
    \/ \E x \in StreamIds : StreamJsonCall(x)
    \/ \E x \in StreamIds : StreamChunk(x)
    \/ \E x \in StreamIds : StreamBreaks(x)
    \/ \E x \in StreamIds : StreamEnds(x)

SpecStream == InitStream /\ [][NextStream]_vars

\* The stage functions called one at a time, with and without a stored key.
NextStage ==
    \/ \E stage \in TextStages \cup ImageStages : StageCall(1, stage)
    \/ \E o \in TextOutcomes \cup ImageOutcomes : StageSettle(1, o)
    \/ ConnectKey
    \/ \E key \in KeyInputs : HandleManualKeySubmit(key)
    \/ HandleDisconnectKey

SpecStage == Init /\ [][NextStage]_vars

\* An Interactive run of a connected session between the display of its
\* Transmission and the settling of its header request: handleGenerate is
\* at `await headerPromise` and the viewer is open on the Transmission.
SettledCall(stage) == [Call(stage, 0, TRUE, "value") EXCEPT !.outcome = "ok"]

DisplayedRun(roster) ==
    [IdleRun EXCEPT !.pc = "awaitHeader", !.mode = "interactive", !.leads = roster,
                    !.header = "pending",
                    !.t = InteractiveTransmission(1, roster, "pending"),
                    !.calls = <<SettledCall(StTitle), SettledCall(StExposition),
                                Call(StHeader, 0, TRUE, "pending"),
                                SettledCall(StRoster)>>]

\* The viewer shows the Transmission as the roster stage gave it, or after
\* its first lead was inspected and the dossier closed again.
Displayed(roster, inspected) ==
    LET t == InteractiveTransmission(1, roster, "pending")
        shown == IF inspected
                 THEN [t EXCEPT !.leads[1] = StoredLead(roster[1], "image")]
                 ELSE t
    IN  /\ apiKey = LongKey
        /\ hasApiKey = TRUE
        /\ user = FALSE
        /\ showKeyModal = FALSE
        /\ isBulkGenerating = FALSE
        /\ state = [transmission |-> shown, status |-> "viewing", error |-> Undefined]
        /\ loadingMessage = MsgNone
        /\ localArchives = <<>>
        /\ pendingLoads = 0
        /\ db = IF inspected THEN Put(<<>>, shown) ELSE <<>>
        /\ clock = 1
        /\ nRuns = 1
        /\ runs = [r \in RunIds |-> DisplayedRun(roster)]
        /\ edits = 0
        /\ activeLead = NoActiveLead
        /\ dossier = Unmounted
        /\ ops = [o \in OpIds |-> IdleOp]
        /\ nOps = 0
        /\ streams = [x \in StreamIds |-> IdleStream]
        /\ Untouched

InitPatch ==
    \E inspected \in BOOLEAN :
        Displayed([i \in 1..MaxLeads |-> RosterLead(i, FALSE)], inspected)

NextPatch ==
    \/ \E r \in RunIds, o \in ImageOutcomes, ok \in SaveOutcomes : HeaderSettles(r, o, ok)
    \/ \E r \in RunIds : SaveResume(r)
    \/ \E r \in RunIds, ok \in LoadOutcomes : ReloadResume(r, ok)
    \/ \E j \in 1..MaxLeads, ok \in SaveOutcomes :
          \E name \in NameInputs(j), description \in DescriptionInputs(j) :
            HandleUpdateLead(j, name, description, ok)
    \/ \E j \in 1..MaxLeads : HandleInspectLead(j)
    \/ \E o \in OpIds, outcome \in TextOutcomes, ok \in SaveOutcomes :
          InspectTextSettles(o, outcome, ok)
    \/ \E o \in OpIds, outcome \in ImageOutcomes, ok \in SaveOutcomes :
          InspectImageSettles(o, outcome, ok)
    \/ CloseDossier
    \/ \E target \in RegenTargets : HandleRegenClick(target[1], target[2])
    \/ \E o \in OpIds, ok \in SaveOutcomes : RegenDelayDone(o, ok)
    \/ \E o \in OpIds, outcome \in TextOutcomes \cup ImageOutcomes, ok \in SaveOutcomes :
          RegenSettles(o, outcome, ok)
    \/ \E o \in OpIds : RegenTypingDone(o)
    \/ \E fieldName \in EditTargets : HandleEditClick(fieldName)
    \/ \E value \in {dossier.editValue, EditedText}, ok \in SaveOutcomes :
          HandleSaveEdit(value, ok)
    \/ HandleCancelEdit

SpecPatch == InitPatch /\ [][NextPatch]_vars

\* The same run in a session whose local archive holds a Transmission of an
\* earlier session: the viewer can be closed and the older Transmission
\* opened while the header request is in flight.
Older == NewTransmission(0, <<RosterLead(1, FALSE)>>, DataUrl(HeaderPayload))

InitClose ==
    \E roster \in {r \in Rosters : r # <<>>} :
        /\ apiKey = LongKey
        /\ hasApiKey = TRUE
        /\ user = FALSE
        /\ showKeyModal = FALSE
        /\ isBulkGenerating = FALSE
        /\ state = [transmission |-> InteractiveTransmission(1, roster, "pending"),
                    status |-> "viewing", error |-> Undefined]
        /\ loadingMessage = MsgNone
        /\ localArchives = <<Older>>
        /\ pendingLoads = 0
        /\ db = Put(<<>>, Older)
        /\ clock = 1
        /\ nRuns = 1
        /\ runs = [r \in RunIds |-> DisplayedRun(roster)]
        /\ edits = 0
        /\ activeLead = NoActiveLead
        /\ dossier = Unmounted
        /\ ops = [o \in OpIds |-> IdleOp]
        /\ nOps = 0
        /\ streams = [x \in StreamIds |-> IdleStream]
        /\ Untouched

NextClose ==
    \/ \E r \in RunIds, o \in ImageOutcomes, ok \in SaveOutcomes : HeaderSettles(r, o, ok)
    \/ \E r \in RunIds : SaveResume(r)
    \/ \E r \in RunIds, ok \in LoadOutcomes : ReloadResume(r, ok)
    \/ CloseTransmission
    \/ \E k \in 1..2 : OpenArchive(k)
    \/ \E ok \in LoadOutcomes : LoadSettles(ok)
    \/ \E j \in 1..MaxLeads, ok \in SaveOutcomes :
          \E name \in NameInputs(j), description \in DescriptionInputs(j) :
            HandleUpdateLead(j, name, description, ok)

SpecClose == InitClose /\ [][NextClose]_vars

\* A whole session with a connected key, in either mode: generation runs,
\* loads from a bucket that holds one archive, archive opens and closes,
\* lead updates and inspections.  The roster stage answers with one lead.
InitSession ==
    /\ apiKey = LongKey
    /\ \E bulk \in BOOLEAN : MountedApp(bulk)
    /\ streams = [x \in StreamIds |-> IdleStream]
    /\ requests = <<>>
    /\ history = <<>>
    /\ cloud = [EmptyBucket EXCEPT !.exists = TRUE,
                                   !.manifest = <<ManifestItem(Uploadable(MaxCloudIds))>>]

NextSession ==
    \/ HandleGenerate
    \/ \E r \in RunIds, o \in TextOutcomes : TitleSettles(r, o)
    \/ \E r \in RunIds, o \in TextOutcomes : ExpositionSettles(r, o)
    \/ \E r \in RunIds, o \in TextOutcomes, ok \in SaveOutcomes :
          RosterSettles(r, o, <<RosterLead(1, FALSE)>>, ok)
    \/ \E r \in RunIds, o \in ImageOutcomes, ok \in SaveOutcomes : HeaderSettles(r, o, ok)
    \/ \E r \in RunIds, o \in TextOutcomes, ok \in SaveOutcomes : LeadTextSettles(r, o, ok)
    \/ \E r \in RunIds, o \in ImageOutcomes, ok \in SaveOutcomes : LeadImageSettles(r, o, ok)
    \/ \E r \in RunIds : SaveFullResume(r)
    \/ \E r \in RunIds : SaveResume(r)
    \/ \E r \in RunIds, ok \in LoadOutcomes : ReloadResume(r, ok)
    \/ \E k \in 1..(MaxRuns + 1) : OpenArchive(k)
    \/ \E ok \in LoadOutcomes : LoadSettles(ok)
    \/ CloseTransmission
    \/ \E j \in 1..MaxLeads, ok \in SaveOutcomes :
          \E name \in NameInputs(j), description \in DescriptionInputs(j) :
            HandleUpdateLead(j, name, description, ok)
    \/ \E k \in 1..MaxCloudIds : HandleCloudLoad(k)
    \/ \E l \in 1..MaxLoads, outcome \in CloudLoadOutcomes, ok \in SaveOutcomes :
          \E kind \in FileKinds : CloudFetchSettles(l, outcome, kind, ok)
    \/ \E l \in 1..MaxLoads : CloudSaveResume(l)
    \/ \E l \in 1..MaxLoads, ok \in LoadOutcomes : CloudReloadResume(l, ok)
    \/ \E j \in 1..MaxLeads : HandleInspectLead(j)
    \/ \E o \in OpIds, outcome \in TextOutcomes, ok \in SaveOutcomes :
          InspectTextSettles(o, outcome, ok)
    \/ \E o \in OpIds, outcome \in ImageOutcomes, ok \in SaveOutcomes :
          InspectImageSettles(o, outcome, ok)
    \/ CloseDossier

SpecSession == InitSession /\ [][NextSession]_vars

\* The key: submissions of an empty, a short and a long key, disconnections
\* and page reloads, with a generation run to use the key.
InitKey == apiKey \in KeyValues /\ Mounted(FALSE)

NextKey ==
    \/ ConnectKey
    \/ CloseKeyModal
    \/ \E key \in KeyInputs \cup {ShortKey} : HandleManualKeySubmit(key)
    \/ HandleDisconnectKey
    \/ Reload
    \/ SignIn
    \/ ToggleBulk
    \/ \E ok \in LoadOutcomes : LoadSettles(ok)
    \/ HandleGenerate
    \/ \E r \in RunIds, o \in TextOutcomes : TitleSettles(r, o)

SpecKey == InitKey /\ [][NextKey]_vars

\* The functions of db.ts called one after the other on an empty store.
InitDb == apiKey = LongKey /\ Mounted(FALSE)

NextDb ==
    \/ \E id \in DbIds, ok \in SaveOutcomes : \E t \in DbVersions(id) : SaveCall(t, ok)
    \/ \E id \in DbIds, ok \in SaveOutcomes : DeleteCall(id, ok)
    \/ \E ok \in LoadOutcomes : GetAllCall(ok)

SpecDb == InitDb /\ [][NextDb]_vars

\* The three functions called one after the other, with and without a
\* stored key.
InitPrompt ==
    /\ apiKey \in {NoKey, LongKey}
    /\ MountedApp(FALSE)
    /\ streams = [x \in StreamIds |-> IdleStream]
    /\ Untouched

NextPrompt ==
    \/ \E category \in PromptCategories : GenerateLeadInspectionImageCall(category)
    \/ \E category \in PromptCategories : RegenerateLeadImageCall(category)
    \/ \E fieldName \in SensoryFields, currentSensory \in Sensories :
          RegenerateSensoryFieldCall(fieldName, currentSensory)
    \/ \E k \in 1..MaxRequests, outcome \in TextOutcomes, data \in SensoryResponses :
          SensoryRequestSettles(k, outcome, data)
    \/ \E k \in 1..MaxRequests, outcome \in ImageOutcomes : ImageRequestSettles(k, outcome)

SpecPrompt == InitPrompt /\ [][NextPrompt]_vars

\* The master's uploads to a bucket that holds a manifest of earlier
\* uploads, or none.
RECURSIVE Arrangements(_)
Arrangements(ids) ==
    {<<>>} \cup UNION {{<<id>> \o rest : rest \in Arrangements(ids \ {id})} : id \in ids}

Buckets ==
    {EmptyBucket}
    \cup {[exists |-> TRUE, manifest |-> [k \in DOMAIN a |-> ManifestItem(Uploadable(a[k]))],
           uploads |-> <<>>, loads |-> <<>>] : a \in Arrangements(CloudIds)}

InitCloud ==
    /\ apiKey = LongKey
    /\ MountedApp(FALSE)
    /\ streams = [x \in StreamIds |-> IdleStream]
    /\ requests = <<>>
    /\ history = <<>>
    /\ cloud \in Buckets

NextCloud ==
    \/ SignIn
    \/ \E id \in CloudIds : HandleCloudUpload(id)
    \/ \E u \in 1..MaxUploads, outcome \in FetchOutcomes : FileUploadSettles(u, outcome)
    \/ \E u \in 1..MaxUploads, outcome \in FetchOutcomes : ManifestFetchSettles(u, outcome)
    \/ \E u \in 1..MaxUploads, outcome \in FetchOutcomes : ManifestPostSettles(u, outcome)

SpecCloud == InitCloud /\ [][NextCloud]_vars

\* ------------------------------------------------------------- Full mode claims
\* The detail-text call of lead i of a run failed.
TextFailed(run, i) ==
    \E k \in DOMAIN run.calls :
        /\ run.calls[k].stage = StLeadText
        /\ run.calls[k].lead = i
        /\ IsError(run.calls[k].result)

\* generateFullTransmission has returned run.t to handleGenerate.
Returned(run) == run.mode = "full" /\ run.pc \in {"saveFull", "loadFull"}

\* The returned Transmission has the roster's leads, in order, with their
\* identity fields, and Details exactly on the leads whose text did not fail.
LeadsContained(run) ==
    /\ Len(run.t.leads) = Len(run.leads)
    /\ \A i \in DOMAIN run.leads :
         /\ i \in DOMAIN run.t.leads
         /\ run.t.leads[i].id = run.leads[i].id
         /\ run.t.leads[i].name = run.leads[i].name
         /\ run.t.leads[i].description = run.leads[i].description
         /\ run.t.leads[i].category = run.leads[i].category
         /\ (run.t.leads[i].details = NoDetails) <=> TextFailed(run, i)

FullInFlight ==
    {<<r, k>> \in RunIds \X (1..(4 + 2 * MaxLeads)) :
        /\ runs[r].mode = "full"
        /\ k \in InFlight(runs[r])}

\* C2: in Full mode at most one request to the generative service is in
\* flight at any moment.
C2_OneRequestInFlight == Cardinality(FullInFlight) <= 1

\* The detail-image request of the second lead is the one in flight, every
\* earlier request of the run having settled.
C2_Witness ==
    \E r \in RunIds :
        /\ runs[r].mode = "full"
        /\ runs[r].pc = "leadImage"
        /\ runs[r].i = 2
        /\ Cardinality(InFlight(runs[r])) = 1
        /\ Len(runs[r].calls) = 8

\* Call b may be the one issued right after call a in generateFullTransmission.
Follows(a, b) ==
    CASE a.stage = StTitle -> a.result = "value" /\ b.stage = StExposition
      [] a.stage = StExposition -> a.result = "value" /\ b.stage = StRoster
      [] a.stage = StRoster -> a.result = "value" /\ b.stage = StHeader
      [] a.stage = StHeader -> b.stage = StLeadText /\ b.lead = 1
      [] a.stage = StLeadText ->
            \/ a.result = "value" /\ b.stage = StLeadImage /\ b.lead = a.lead
            \/ IsError(a.result) /\ b.stage = StLeadText /\ b.lead = a.lead + 1
      [] a.stage = StLeadImage -> b.stage = StLeadText /\ b.lead = a.lead + 1
      [] OTHER -> FALSE

\* C3: in Full mode the requests are issued in the order title+setting,
\* exposition, roster, header image, then for each lead in roster order its
\* detail text and then its detail image, each only after the previous one
\* has settled.
C3_FullOrder ==
    \A r \in RunIds :
        LET calls == runs[r].calls
        IN  (runs[r].mode = "full" /\ calls # <<>>) =>
               /\ calls[1].stage = StTitle
               /\ \A k \in 1..(Len(calls) - 1) :
                    /\ calls[k].result # "pending"
                    /\ Follows(calls[k], calls[k + 1])
               /\ \A k \in DOMAIN calls :
                    (runs[r].pc # "aborted" /\ calls[k].stage \in {StLeadText, StLeadImage})
                       => calls[k].lead \in DOMAIN runs[r].leads

\* A Full run has issued and settled all eight requests of a roster of two
\* leads.
C3_Witness ==
    \E r \in RunIds :
        /\ runs[r].mode = "full"
        /\ runs[r].pc = "saveFull"
        /\ [k \in DOMAIN runs[r].calls |-> <<runs[r].calls[k].stage, runs[r].calls[k].lead>>]
             = <<<<StTitle, 0>>, <<StExposition, 0>>, <<StRoster, 0>>, <<StHeader, 0>>,
                 <<StLeadText, 1>>, <<StLeadImage, 1>>, <<StLeadText, 2>>, <<StLeadImage, 2>>>>
        /\ \A k \in DOMAIN runs[r].calls : runs[r].calls[k].request

\* ------------------------------------------------------------- Interactive mode claims
\* C4: in Interactive mode the header-image request is issued when the
\* exposition stage has completed, right before the roster request, and is
\* not awaited before the roster stage: the step that settles the roster
\* displays a Transmission with the roster's leads and an empty
\* headerImageUrl and sets the status to 'viewing', whatever the header
\* request has done by then.
C4_HeaderNotAwaited ==
    [][\A r \in RunIds :
          LET run == runs[r]
              next == runs'[r]
          IN  run.mode = "interactive" =>
                /\ run.pc \in {"title", "exposition"}
                      => \A k \in DOMAIN run.calls : run.calls[k].stage # StHeader
                /\ (run.pc = "exposition" /\ next.pc = "roster")
                      => /\ Len(next.calls) = 4
                         /\ next.calls[2].result = "value"
                         /\ next.calls[3].stage = StHeader
                         /\ next.calls[3].result = "pending"
                         /\ next.calls[4].stage = StRoster
                         /\ next.calls[4].result = "pending"
                /\ (run.pc = "roster" /\ next.pc # "roster" /\ next.calls[4].result = "value")
                      => /\ next.header = run.header
                         /\ state'.status = "viewing"
                         /\ state'.transmission # NoTransmission
                         /\ state'.transmission.headerImageUrl = Undefined
                         /\ state'.transmission.leads = next.leads]_vars

\* The Transmission of an Interactive run is displayed, with two leads and
\* no header image, while the run's header request is still in flight.
C4_Witness ==
    \E r \in RunIds :
        /\ runs[r].mode = "interactive"
        /\ runs[r].pc = "awaitHeader"
        /\ runs[r].header = "pending"
        /\ state.status = "viewing"
        /\ state.transmission = runs[r].t
        /\ state.transmission.headerImageUrl = Undefined
        /\ Len(state.transmission.leads) = 2

\* C5: when the header request of an Interactive run resolved with an image
\* and the run's Transmission is the displayed one, the patch sets
\* headerImageUrl to the image and leaves every other field of the displayed
\* Transmission, the leads included, as it was just before the patch.
C5_PatchOnlyHeader ==
    [][\A r \in RunIds :
          LET run == runs[r]
          IN  (/\ run.pc = "savePatch"
               /\ runs'[r].pc = "reload"
               /\ state.transmission # NoTransmission
               /\ state.transmission.id = run.t.id)
                => state' = [state EXCEPT !.transmission =
                                [state.transmission EXCEPT !.headerImageUrl = run.header]]]_vars

\* The header image was patched into the displayed Transmission after the
\* user renamed its first lead: the store holds the renamed lead, the
\* display shows the lead under the name the roster gave it.
C5_Witness ==
    /\ edits = 1
    /\ state.status = "viewing"
    /\ state.transmission # NoTransmission
    /\ state.transmission.headerImageUrl = DataUrl(HeaderPayload)
    /\ state.transmission.leads # <<>>
    /\ state.transmission.leads[1].name = RosterLead(1, FALSE).name
    /\ state.transmission.id \in DOMAIN db
    /\ db[state.transmission.id].leads[1].name = EditedName

\* The steps of an Interactive run whose header request yielded no image,
\* from the resumption of `await headerPromise` to the end of the handler.
NoImageStep(run, next) ==
    /\ run.mode = "interactive"
    /\ run.t # NoTransmission
    /\ run.header = Undefined
    /\ run.pc \in {"awaitHeader", "saveNoPatch", "reload"}
    /\ next # run

\* C6: when the header request of an Interactive run yields no image, the
\* rest of the handler leaves the state as it is (headerImageUrl empty, no
\* error indicator, the status unchanged) and its save puts the Transmission
\* into the store.
C6_NoImageTolerated ==
    [][\A r \in RunIds :
          NoImageStep(runs[r], runs'[r]) =>
             /\ state' = state
             /\ (runs[r].pc = "awaitHeader" /\ runs'[r].saveOk)
                  => /\ runs[r].t.id \in DOMAIN db'
                     /\ db'[runs[r].t.id].id = runs[r].t.id]_vars

\* The header request of an Interactive run answered without an image and
\* the save rejected: the run's Transmission is still in the state, with no
\* header image, under status 'setup' with the error indicator, and the
\* store is empty.
C6_Witness ==
    \E r \in RunIds :
        /\ runs[r].pc = "aborted"
        /\ runs[r].mode = "interactive"
        /\ runs[r].header = Undefined
        /\ ~runs[r].saveOk
        /\ state.transmission # NoTransmission
        /\ state.transmission.headerImageUrl = Undefined
        /\ state.status = "setup"
        /\ state.error = ErrInterrupted
        /\ db = <<>>

\* ------------------------------------------------------------- stage function claims
\* The calls a step adds to a caller's record.
NewCalls(run, next) == {k \in DOMAIN next.calls : k > Len(run.calls)}

\* C7 as stated: every stage function called while no credential is
\* resolvable fails with MissingCredential and issues no request.
C7_AllFailMissingCredential ==
    [][\A r \in RunIds :
          GetApiKey = Undefined =>
             \A k \in NewCalls(runs[r], runs'[r]) :
                /\ ~runs'[r].calls[k].request
                /\ runs'[r].calls[k].result = MissingCredential]_vars

\* C7, amended: a stage function called while no credential is resolvable
\* issues no request; a text stage (regeneration variants included) fails
\* with MissingCredential, an image stage catches that error and returns an
\* absent image.
C7_NoRequestWithoutCredential ==
    [][\A r \in RunIds :
          GetApiKey = Undefined =>
             \A k \in NewCalls(runs[r], runs'[r]) :
                LET c == runs'[r].calls[k]
                IN  /\ ~c.request
                    /\ c.outcome = "none"
                    /\ c.stage \in TextStages => c.result = MissingCredential
                    /\ c.stage \in ImageStages => c.result = Undefined]_vars

\* With no credential stored, a text stage and then an image stage were
\* called: neither issued a request, the first failed, the second returned
\* an absent image.
C7_Witness ==
    /\ GetApiKey = Undefined
    /\ Len(runs[1].calls) = 2
    /\ runs[1].calls[1].stage \in TextStages
    /\ ~runs[1].calls[1].request
    /\ runs[1].calls[1].result = MissingCredential
    /\ runs[1].calls[2].stage \in ImageStages
    /\ ~runs[1].calls[2].request
    /\ runs[1].calls[2].result = Undefined

\* C8: an image stage whose request throws or answers without an inline
\* image returns an absent image, and no image stage ever fails.
C8_ImageFailureAbsorbed ==
    \A r \in RunIds :
        \A k \in DOMAIN runs[r].calls :
            LET c == runs[r].calls[k]
            IN  c.stage \in ImageStages =>
                   /\ ~IsError(c.result)
                   /\ c.outcome \in {"throw", "empty"} => c.result = Undefined

\* An image stage returned an absent image after its request threw, and
\* another one after an answer without inline data.
C8_Witness ==
    /\ Len(runs[1].calls) = 2
    /\ runs[1].calls[1].stage \in ImageStages
    /\ runs[1].calls[1].outcome = "throw"
    /\ runs[1].calls[1].result = Undefined
    /\ runs[1].calls[2].stage \in ImageStages
    /\ runs[1].calls[2].stage # runs[1].calls[1].stage
    /\ runs[1].calls[2].outcome = "empty"
    /\ runs[1].calls[2].result = Undefined

\* ------------------------------------------------------------- abort
\* The step from run to next ends the run in the catch block because a
\* title+setting, exposition or roster call failed.
StructureAbort(run, next) ==
    /\ run.pc \in {"idle", "title", "exposition", "roster"}
    /\ next.pc = "aborted"
    /\ next.calls # <<>>
    /\ next.calls[Len(next.calls)].stage \in StructureStages
    /\ IsError(next.calls[Len(next.calls)].result)

\* C9: a failing title+setting, exposition or roster stage aborts the run
\* in either mode: the step in which the stage fails issues no request, no
\* step of the run up to there displays or saves anything or builds a
\* Transmission, and the catch block sets the status to 'setup' and the
\* error indicator, leaving state.transmission, the store and the archives
\* as they are.
C9_StructureFailureAborts ==
    [][\A r \in RunIds :
          LET run == runs[r]
              next == runs'[r]
          IN  /\ (/\ run.pc \in {"idle", "title", "exposition", "roster"}
                  /\ next.pc \in {"title", "exposition", "roster"}
                  /\ next # run)
                   => /\ state'.transmission = state.transmission
                      /\ db' = db
                      /\ next.t = NoTransmission
              /\ StructureAbort(run, next)
                   => /\ \A k \in NewCalls(run, next) : ~next.calls[k].request
                      /\ state' = [transmission |-> state.transmission,
                                   status |-> "setup", error |-> ErrInterrupted]
                      /\ db' = db
                      /\ localArchives' = localArchives]_vars

\* The catch block has run after the roster stage of an Interactive run
\* failed, the header request having been issued before it: the setup
\* screen shows the error, nothing is displayed, the store is empty.
C9_Witness ==
    \E r \in RunIds :
        /\ runs[r].pc = "aborted"
        /\ runs[r].mode = "interactive"
        /\ Len(runs[r].calls) = 4
        /\ runs[r].calls[4].stage = StRoster
        /\ IsError(runs[r].calls[4].result)
        /\ state.status = "setup"
        /\ state.error = ErrInterrupted
        /\ state.transmission = NoTransmission
        /\ db = <<>>

\* ------------------------------------------------------------- handleUpdateLead
\* C10: handleUpdateLead, for the stored lead that carries the updated id
\* (the first one find returns): if its name or its description differs
\* after the update its Details are cleared, if both are the same it keeps
\* exactly the Details it had; the id stays.
C10_UpdateClearsDetails ==
    [][edits' = edits + 1 =>
          LET old == state.transmission.leads
              new == state'.transmission.leads
          IN  /\ Len(new) = Len(old)
              /\ \A k \in DOMAIN old :
                   k = FindLead(old, old[k].id) =>
                      /\ new[k].id = old[k].id
                      /\ IF new[k].name # old[k].name
                            \/ new[k].description # old[k].description
                         THEN new[k].details = NoDetails
                         ELSE new[k].details = old[k].details]_vars

\* A lead that had Details in the archived copy of the displayed
\* Transmission was renamed and has none, the other lead kept its own.
C10_Witness ==
    /\ edits = 1
    /\ state.transmission # NoTransmission
    /\ Len(state.transmission.leads) = 2
    /\ state.transmission.leads[1].name = EditedName
    /\ state.transmission.leads[1].details = NoDetails
    /\ state.transmission.leads[2].details # NoDetails
    /\ Len(localArchives) = 1
    /\ localArchives[1].id = state.transmission.id
    /\ localArchives[1].leads[1].details # NoDetails
    /\ localArchives[1].leads[2] = state.transmission.leads[2]

\* ------------------------------------------------------------- field regeneration
\* The Details the Transmission tr holds for the first lead with id.
DetailsOf(tr, id) ==
    IF tr = NoTransmission THEN NoDetails
    ELSE LET k == FindLead(tr.leads, id)
         IN  IF k = 0 THEN NoDetails ELSE tr.leads[k].details

\* The attribute a regeneration is about.
RegeneratedAttribute(op) ==
    CASE op.fieldType = "sensory" -> op.sensoryField
      [] op.fieldType = "dossier" -> "expandedDescription"
      [] op.fieldType = "image" -> "imageUrl"

\* Invocation o of handleRegenerateDossierField completes in this step: its
\* request settles and the handler runs to its end.
RegenCompletes(o) == ops[o].pc = "regenCall" /\ ops'[o].pc # "regenCall"

\* C11: a field regeneration through handleRegenerateDossierField issues
\* exactly one generation request, that of the stage of the field (so no
\* image request for the expanded description), and the step in which it
\* completes leaves every other attribute of the lead's Details, in the
\* displayed Transmission, with the value it had.
C11_RegenerationChangesOneField ==
    [][\A o \in OpIds :
          RegenCompletes(o) =>
             LET op == ops[o]
                 old == DetailsOf(state.transmission, op.lead.id)
                 new == DetailsOf(state'.transmission, op.lead.id)
             IN  /\ Len(ops'[o].calls) = 1
                 /\ ops'[o].calls[1].request
                 /\ ops'[o].calls[1].stage = RegenStage(op.fieldType)
                 /\ (old # NoDetails /\ new # NoDetails) =>
                       \A a \in Attributes \ {RegeneratedAttribute(op)} :
                          Attribute(new, a) = Attribute(old, a)]_vars

\* A regeneration of sensory.sight has completed and written its value
\* after the user saved an edit of sensory.smell: the displayed Details
\* hold the regenerated sight and the smell the lead had when the button
\* was clicked.
C11_Witness ==
    \E o \in OpIds :
        /\ ops[o].pc = "regenTyping"
        /\ ops[o].fieldType = "sensory"
        /\ ops[o].sensoryField = "sight"
        /\ Len(ops[o].calls) = 1
        /\ ops[o].calls[1].result = "value"
        /\ edits = 1
        /\ DetailsOf(state.transmission, ops[o].lead.id) # NoDetails
        /\ DetailsOf(state.transmission, ops[o].lead.id).sensory.sight
              = Regenerated("sight", ops[o].lead, o)
        /\ DetailsOf(state.transmission, ops[o].lead.id).sensory.smell
              = ops[o].lead.details.sensory.smell
        /\ ops[o].before # NoDetails
        /\ ops[o].before.sensory.smell = EditedText

\* C12: handleRegenerateDossierField called for a lead without Details
\* issues no generation request and leaves the displayed Transmission, the
\* store and the active dossier as they are.
C12_NoDetailsRejected ==
    [][\A o \in OpIds :
          (/\ ops[o].pc = "idle"
           /\ ops'[o].kind \in {"regen", "direct"}
           /\ ops'[o].lead.details = NoDetails)
             => /\ ops'[o].calls = <<>>
                /\ ops'[o].pc = "returned"
                /\ state' = state
                /\ db' = db
                /\ activeLead' = activeLead
                /\ dossier' = dossier]_vars

\* The handler was called, with a credential source, for a lead without
\* Details while the dossier of another lead was open, and has returned.
C12_Witness ==
    \E o \in OpIds :
        /\ ops[o].kind = "direct"
        /\ ops[o].pc = "returned"
        /\ ops[o].canGenerate
        /\ ops[o].lead.details = NoDetails
        /\ ops[o].calls = <<>>
        /\ activeLead # NoActiveLead
        /\ activeLead.details # NoDetails

\* ------------------------------------------------------------- no retry
\* The calls of a run that went to `stage` for `lead`.
CallsTo(run, stage, lead) ==
    {k \in DOMAIN run.calls :
        run.calls[k].stage = stage /\ run.calls[k].lead = lead}

SameTransmission ==
    /\ state.transmission # NoTransmission
    /\ state'.transmission # NoTransmission
    /\ state'.transmission.id = state.transmission.id

\* C20: whatever is done to a Transmission (lead edits, header patch,
\* Full-mode detailing), every lead of it keeps the id and the category the
\* roster stage gave it: no step changes the id or the category of the lead
\* at any position of the Transmission on display.
C20_IdAndCategoryFixed ==
    [][SameTransmission =>
          /\ Len(state'.transmission.leads) = Len(state.transmission.leads)
          /\ \A k \in DOMAIN state.transmission.leads :
                /\ state'.transmission.leads[k].id = state.transmission.leads[k].id
                /\ state'.transmission.leads[k].category
                      = state.transmission.leads[k].category]_vars

\* The roster stage gave the first two leads the same id and different
\* categories; after an edit of one of them was saved both carry the same
\* category.
C20_Witness ==
    /\ edits = 1
    /\ state.transmission # NoTransmission
    /\ Len(state.transmission.leads) >= 2
    /\ state.transmission.leads[1].id = state.transmission.leads[2].id
    /\ RosterLead(1, TRUE).category # RosterLead(2, TRUE).category
    /\ state.transmission.leads[1].category = state.transmission.leads[2].category

\* ------------------------------------------------------------- streamJson claims
\* The members the responseSchema of a stage declares required.
Required(stage) ==
    IF stage = StRoster THEN {"leads"} ELSE {"title", "settingSummary"}

\* streamJson has parsed the text and the stage function has returned, or
\* the parse has failed.
Ended(s) ==
    \/ s.pc = "returned"
    \/ s.pc = "thrown" /\ s.thrown.error = MalformedGenerationOutput

\* C13: a response that parses as JSON but lacks a member the schema of the
\* stage requires is fatal for the stage: the stage function returns only
\* data that has every required member.
C13_MissingFieldFatal ==
    \A x \in StreamIds :
        streams[x].pc = "returned" =>
           \A f \in Required(streams[x].stage) :
              Member(streams[x].data, f).kind # "undefined"

\* The roster stage has returned an empty roster for a response that is an
\* object without `leads`.
C13_Witness ==
    \E x \in StreamIds :
        /\ streams[x].pc = "returned"
        /\ streams[x].stage = StRoster
        /\ streams[x].sent = JObject(<<JMember("note", JString("no leads"))>>)
        /\ streams[x].data = streams[x].sent
        /\ streams[x].result = JArray(<<>>)

\* What streamJson does once the stream has ended with fullText, apart from
\* the message of the error: it returns the parsed value and logs nothing,
\* or throws the parser's error after it logged the cleaned text.
ParseOrLog(s) ==
    IF JsonParse(Clean(s.fullText)).ok
    THEN /\ s.pc = "returned"
         /\ s.data = JsonParse(Clean(s.fullText)).value
         /\ s.logged = <<>>
    ELSE /\ s.pc = "thrown"
         /\ s.thrown.error = MalformedGenerationOutput
         /\ s.data = JUndefined
         /\ s.result = JUndefined
         /\ s.logged = <<Clean(s.fullText)>>

\* C14: when the accumulated text, after fence stripping, does not parse,
\* streamJson returns no value and fails with an error that carries the
\* cleaned text.
C14_ErrorCarriesCleanText ==
    \A x \in StreamIds :
        Ended(streams[x]) =>
           /\ ParseOrLog(streams[x])
           /\ streams[x].pc = "thrown" =>
                 streams[x].thrown.message = Clean(streams[x].fullText)

\* C14, amended: when the accumulated text, after fence stripping, does not
\* parse, streamJson returns no value and throws the parser's error, whose
\* message is the engine's; the cleaned text is written to the error log,
\* once.  A text that parses is returned and nothing is logged.
C14_ErrorLogsCleanText ==
    \A x \in StreamIds : Ended(streams[x]) => ParseOrLog(streams[x])

\* A fenced response that was cut short has failed to parse: the text
\* logged is the text without the fence, and the error's message is not
\* that text.
C14_Witness ==
    \E x \in StreamIds :
        /\ streams[x].pc = "thrown"
        /\ streams[x].thrown.error = MalformedGenerationOutput
        /\ StartsWith(streams[x].fullText, 1, FenceJson)
        /\ streams[x].logged = <<"{\"leads\":[{\"id\":\"1\"">>
        /\ streams[x].thrown.message # streams[x].logged[1]

\* ------------------------------------------------------------- fence stripping
\* C16: fence stripping is idempotent: for every accumulated text, bare or
\* in a fence with or without the json tag, cleaning the cleaned text gives
\* the same parsed value, or the same failure, as cleaning the text.
C16_CleanIdempotent ==
    \A x \in StreamIds :
        LET once == Clean(streams[x].fullText)
            twice == Clean(once)
        IN  /\ JsonParse(twice) = JsonParse(once)
            /\ Ended(streams[x]) =>
                  (streams[x].pc = "returned" <=> JsonParse(twice).ok)
            /\ streams[x].pc = "returned" => streams[x].data = JsonParse(twice).value

\* A response in a json fence was returned: cleaning changed the text, and
\* the cleaned text parses to the value the service sent.
C16_Witness ==
    \E x \in StreamIds :
        /\ streams[x].pc = "returned"
        /\ StartsWith(streams[x].fullText, 1, FenceJson \o Newline)
        /\ Clean(streams[x].fullText) # streams[x].fullText
        /\ Clean(Clean(streams[x].fullText)) = Clean(streams[x].fullText)
        /\ streams[x].data = streams[x].sent
        /\ streams[x].sent \in RosterObjects

\* ------------------------------------------------------------- onUpdate
\* The concatenation of chunks.
RECURSIVE Concat(_)
Concat(chunks) ==
    IF chunks = <<>> THEN "" ELSE Head(chunks) \o Concat(Tail(chunks))

\* The chunks that have text.
WithText(chunks) == SelectSeq(chunks, LAMBDA c : c # "")

\* The running concatenations of chunks.
Running(chunks) == [i \in 1..Len(chunks) |-> Concat(SubSeq(chunks, 1, i))]

\* a is a prefix of b.
IsPrefix(a, b) == Len(a) <= Len(b) /\ SubSeq(b, 1, Len(a)) = a

\* C17: for a stream that delivers the increments c1..cn, streamJson with
\* an onUpdate calls it once after every increment, the i-th time with
\* c1+...+ci.
C17_UpdateAfterEveryIncrement ==
    \A x \in StreamIds :
        streams[x].onUpdate => streams[x].updates = Running(streams[x].delivered)

\* C17, amended: streamJson with an onUpdate calls it once after every
\* increment that has text, in order, the i-th time with the concatenation
\* of the first i such increments, and not at all after an increment without
\* text; every argument is a prefix of the next, and after the last
\* increment the last argument is the full accumulated text.  Without an
\* onUpdate nothing is called.
C17_UpdateAfterEveryText ==
    \A x \in StreamIds :
        LET s == streams[x]
        IN  /\ s.updates = IF s.onUpdate THEN Running(WithText(s.delivered)) ELSE <<>>
            /\ \A i \in 1..(Len(s.updates) - 1) : IsPrefix(s.updates[i], s.updates[i + 1])
            /\ s.pc \in {"streaming", "returned"} => s.fullText = Concat(s.delivered)
            /\ (s.pc = "returned" /\ s.onUpdate /\ s.updates # <<>>) =>
                  s.updates[Len(s.updates)] = s.fullText

\* A stream delivered text, a chunk without text and text again to a
\* streamJson with an onUpdate, which was called twice and has returned.
C17_Witness ==
    \E x \in StreamIds :
        /\ streams[x].pc = "returned"
        /\ streams[x].onUpdate
        /\ Len(streams[x].delivered) = 3
        /\ streams[x].delivered[2] = ""
        /\ Len(streams[x].updates) = 2
        /\ streams[x].updates[1] = streams[x].delivered[1]
        /\ streams[x].updates[2] = streams[x].text

\* ------------------------------------------------------------- chunking
\* C18: the outcome of streamJson depends only on the concatenation of the
\* increments: two streams whose increments concatenate to the same text
\* both return, the same value, or both fail to parse, however the text was
\* cut.
C18_ChunkingIrrelevant ==
    \A x, y \in StreamIds :
        (/\ Ended(streams[x])
         /\ Ended(streams[y])
         /\ Concat(streams[x].delivered) = Concat(streams[y].delivered))
           => /\ streams[x].pc = streams[y].pc
              /\ streams[x].data = streams[y].data
              /\ streams[x].result = streams[y].result
              /\ streams[x].thrown.error = streams[y].thrown.error
              /\ streams[x].logged = streams[y].logged

\* The same fenced response was delivered cut inside the opening fence, and
\* in one piece: both calls returned the value the service sent.
C18_Witness ==
    /\ streams[1].pc = "returned"
    /\ streams[2].pc = "returned"
    /\ Len(streams[1].delivered) = 2
    /\ streams[1].delivered[1] = Backquote \o Backquote
    /\ Len(streams[2].delivered) = 1
    /\ streams[1].data = streams[2].data
    /\ streams[1].data = streams[1].sent
    /\ streams[1].data.kind = "object"

\* ------------------------------------------------------------- roster size
\* C19: the roster stage returns the leads of the parsed response unchanged
\* and in order, and throws no error, whatever their number and their
\* categories: 36 leads with six per category, 35 leads, 36 with seven in
\* one category.
C19_RosterNotCounted ==
    \A x \in StreamIds :
        (/\ streams[x].stage = StRoster
         /\ Ended(streams[x])
         /\ streams[x].sent \in RosterObjects)
           => /\ streams[x].pc = "returned"
              /\ streams[x].result = Member(streams[x].sent, "leads")
              /\ streams[x].result = Member(JsonParse(Clean(streams[x].fullText)).value,
                                           "leads")

\* The category of lead i of a roster.
CategoryOf(leads, i) == Member(leads.items[i], "category").text

\* The roster stage has returned 35 leads, with fewer leads in the last
\* category than in the others.
C19_Witness ==
    \E x \in StreamIds :
        /\ streams[x].pc = "returned"
        /\ streams[x].stage = StRoster
        /\ Len(streams[x].result.items) = FullRoster - 1
        /\ streams[x].result = Member(streams[x].sent, "leads")
        /\ Cardinality({i \in 1..(FullRoster - 1) :
                           CategoryOf(streams[x].result, i) = CATEGORIES[6]}) = 5
        /\ Cardinality({i \in 1..(FullRoster - 1) :
                           CategoryOf(streams[x].result, i) = CATEGORIES[1]}) = 6

\* ------------------------------------------------------------- key lock
\* C26: with no API key stored, generation is locked: no step on the setup
\* screen starts a generation run or enters status 'loading', and a step
\* that would have started one shows the key modal instead.
C26_LockedWithoutKey ==
    [][(GetApiKey = Undefined /\ state.status = "setup")
          => /\ nRuns' = nRuns
             /\ state'.status # "loading"
             /\ state'.error = state.error]_vars

\* A run was started while no key was stored, after CONNECT was pressed on
\* the empty input of the key modal: its title request was never issued and
\* the run has ended with the error indicator.
C26_Witness ==
    /\ GetApiKey = Undefined
    /\ hasApiKey
    /\ ~showKeyModal
    /\ nRuns = 1
    /\ runs[1].pc = "aborted"
    /\ runs[1].calls = <<Call(StTitle, 0, FALSE, MissingCredential)>>
    /\ state.status = "setup"
    /\ state.error = ErrInterrupted

\* ------------------------------------------------------------- header patch
\* The run record at `await headerPromise` is the one the run's own steps
\* leave there.
DisplayedRunReached ==
    \A r \in RunIds : runs[r].pc = "awaitHeader" => runs[r] = DisplayedRun(runs[r].leads)

\* C29: what lead edits and lead-detail generations have made of the leads
\* of a displayed Interactive Transmission by the time its header request
\* resolves with an image is still there after the header patch: the
\* object the handler builds at that step, which it saves and which the
\* patch then displays, has the leads the viewer shows at that step, and so
\* has the stored copy once the save went through.
C29_ChangesSurvivePatch ==
    [][\A r \in RunIds :
          LET run == runs[r]
          IN  (/\ run.mode = "interactive"
               /\ run.pc = "awaitHeader"
               /\ runs'[r].pc = "savePatch"
               /\ state.transmission # NoTransmission
               /\ state.transmission.id = run.t.id)
                => /\ runs'[r].updated.leads = state.transmission.leads
                   /\ runs'[r].saveOk => db'[run.t.id].leads = state.transmission.leads]_vars

\* The header patch was applied after the second lead was inspected while
\* the header request was pending: the inspection had attached Details to
\* the lead and saved them, the patched display and the stored copy hold
\* the lead without Details.
C29_Witness ==
    /\ nOps = 1
    /\ ops[1] = DoneOp
    /\ edits = 0
    /\ runs[1].mode = "interactive"
    /\ runs[1].pc = "reload"
    /\ activeLead # NoActiveLead
    /\ activeLead.lead.id = 2
    /\ activeLead.details # NoDetails
    /\ state.status = "viewing"
    /\ state.transmission.headerImageUrl = DataUrl(HeaderPayload)
    /\ state.transmission.leads[2].details = NoDetails
    /\ 1 \in DOMAIN db
    /\ db[1].leads[2].details = NoDetails

\* ------------------------------------------------------------- frame
\* The part of a Transmission the first two stages generated.
Frame(t) == <<t.title, t.settingSummary, t.exposition>>

\* C21: no step changes the title, the setting summary or the Exposition of
\* a Transmission, in the display or in the store: not a lead edit, an
\* inspection, a field regeneration, a detail-field edit or the header
\* patch.
C21_FrameImmutable ==
    [][/\ (/\ state.transmission # NoTransmission
           /\ state'.transmission # NoTransmission
           /\ state'.transmission.id = state.transmission.id)
             => Frame(state'.transmission) = Frame(state.transmission)
       /\ \A id \in DOMAIN db \cap DOMAIN db' : Frame(db'[id]) = Frame(db[id])]_vars

\* A lead of the Transmission was renamed, an inspection or a field
\* regeneration has ended, the header was patched in, and the displayed and
\* the stored Transmission have the title, the summary and the Exposition
\* the run generated.
C21_Witness ==
    /\ edits = 1
    /\ nOps = 1
    /\ ops[1] = DoneOp
    /\ runs[1].pc = "reload"
    /\ runs[1].updated # NoTransmission
    /\ state.status = "viewing"
    /\ state.transmission.headerImageUrl = DataUrl(HeaderPayload)
    /\ \E k \in DOMAIN state.transmission.leads :
          state.transmission.leads[k].name = EditedName
    /\ Frame(state.transmission) = <<TitleData.title, TitleData.settingSummary, ExpositionData>>
    /\ 1 \in DOMAIN db
    /\ Frame(db[1]) = Frame(state.transmission)

\* ------------------------------------------------------------- stale Details
\* A generated text was prompted with the lead's present name and
\* description; a text the user typed was not generated.
GeneratedFor(value, lead) ==
    Len(value) >= 3 => (value[2] = lead.name /\ value[3] = lead.description)

FitsLead(lead) ==
    lead.details # NoDetails =>
        \A a \in SensoryFields \cup {"expandedDescription"} :
            GeneratedFor(DetailField(lead.details, a), lead)

\* The leads of a Transmission have ids of their own.
DistinctIds(t) ==
    \A j, k \in DOMAIN t.leads : t.leads[j].id = t.leads[k].id => j = k

FitsLeads(t) == DistinctIds(t) => \A k \in DOMAIN t.leads : FitsLead(t.leads[k])

\* C30: whenever a lead of the displayed or of a stored Transmission (its
\* leads with ids of their own) has Details, their generated texts were
\* generated for the name and the description the lead has now; a lead
\* renamed while an inspection or a regeneration of it was in flight does
\* not get the Details of that operation.
C30_DetailsFitLead ==
    /\ state.transmission # NoTransmission => FitsLeads(state.transmission)
    /\ \A id \in DOMAIN db : FitsLeads(db[id])

\* The second lead was renamed while its inspection was in flight; the
\* inspection has ended and the lead has, under its new name, the Details
\* generated for the old one, in the display and in the store.
C30_Witness ==
    /\ edits = 1
    /\ nOps = 1
    /\ ops[1] = DoneOp
    /\ state.transmission # NoTransmission
    /\ DistinctIds(state.transmission)
    /\ state.transmission.leads[2].name = EditedName
    /\ state.transmission.leads[2].details # NoDetails
    /\ state.transmission.leads[2].details.sensory.sight
          = Generated("sight", RosterLead(2, FALSE))
    /\ db[state.transmission.id].leads[2] = state.transmission.leads[2]

\* ------------------------------------------------------------- prompt claims
\* The text p occurs in s.
Contains(s, p) == \E i \in 1..(Len(s) - Len(p) + 1) : StartsWith(s, i, p)

\* The lines of a text.
RECURSIVE SplitLines(_)
SplitLines(s) ==
    IF \E i \in 1..Len(s) : At(s, i) = Newline
    THEN LET i == CHOOSE i \in 1..Len(s) :
                     At(s, i) = Newline /\ \A j \in 1..(i - 1) : At(s, j) # Newline
         IN  <<SubSeq(s, 1, i - 1)>> \o SplitLines(From(s, i + 1))
    ELSE <<s>>

\* The framing a directive asks for.
Framing(focusDirective) ==
    IF /\ StartsWith(focusDirective, 1, "Wide or medium shot of the environment")
       /\ Contains(focusDirective, "NO central character")
    THEN "environment"
    ELSE IF /\ StartsWith(focusDirective, 1, "Close-up product shot or macro detail")
            /\ Contains(focusDirective, "No people")
    THEN "product"
    ELSE IF StartsWith(focusDirective, 1, "Dynamic scene") THEN "action"
    ELSE IF StartsWith(focusDirective, 1, "Character portrait") THEN "portrait"
    ELSE "none"

\* The framing each category is to get.
FramingOf(category) ==
    CASE category = "Locations" -> "environment"
      [] category = "Objects" -> "product"
      [] category = "Events" -> "action"
      [] OTHER -> "portrait"

ImageRequests == {k \in DOMAIN requests : requests[k].fn \in {StLeadImage, StRegenImage}}

\* C22: generateLeadInspectionImage and regenerateLeadImage choose the
\* directive by the same lookup on the category: the environment shot
\* without characters for Locations, the product shot without people for
\* Objects, the dynamic scene for Events, the character portrait for every
\* other label, known or not; two calls for the same category have the same
\* directive whichever of the two functions made them.
C22_SameFocusDirective ==
    /\ \A k \in ImageRequests :
          Framing(requests[k].focusDirective) = FramingOf(requests[k].category)
    /\ \A j, k \in ImageRequests :
          requests[j].category = requests[k].category
             => requests[j].focusDirective = requests[k].focusDirective

\* Both functions were called for a lead of an unknown category and issued
\* their requests with the portrait directive.
C22_Witness ==
    /\ Len(requests) = 2
    /\ requests[1].fn = StLeadImage
    /\ requests[2].fn = StRegenImage
    /\ requests[1].category = UnknownCategory
    /\ requests[2].category = UnknownCategory
    /\ requests[1].request
    /\ requests[2].request
    /\ Framing(requests[1].focusDirective) = "portrait"
    /\ requests[2].focusDirective = requests[1].focusDirective

SensoryRequests == {k \in DOMAIN requests : requests[k].fn = StRegenSensory}

\* The line of the sensory context for field f of a sensory record.
ContextLine(sensory, f) == f \o ": " \o sensory[f]

\* C23: the sensory context of a regenerateSensoryField request for field f
\* has three lines, those of the three other fields with the values of the
\* record the function was given; the line of f is not among them, and the
\* value of f occurs in the context only where another field has the same
\* value.  The function returns the member f of the response.
C23_OtherFieldsAsContext ==
    \A k \in SensoryRequests :
        LET q == requests[k]
            lines == SplitLines(q.otherFields)
        IN  /\ Len(lines) = 3
            /\ {lines[i] : i \in DOMAIN lines}
                  = {ContextLine(q.sensory, f) : f \in SensoryFields \ {q.fieldName}}
            /\ (\A f \in SensoryFields \ {q.fieldName} :
                    q.sensory[f] # q.sensory[q.fieldName])
                  => ~Contains(q.otherFields, q.sensory[q.fieldName])
            /\ q.pc = "returned" =>
                  /\ q.result = Member(q.data, q.fieldName)
                  /\ \A i \in DOMAIN q.data.items :
                        q.data.items[i].key = q.fieldName
                           => q.result.text = q.data.items[i].text

\* The sound of a lead was regenerated: the request carried sight, smell
\* and vibe, not the sound the lead had, and the function returned the
\* sound of the response.
C23_Witness ==
    \E k \in SensoryRequests :
        /\ requests[k].fieldName = "sound"
        /\ requests[k].sensory["sound"] = "rain"
        /\ requests[k].request
        /\ requests[k].otherFields = "sight: neon\nsmell: neon\nvibe: neon"
        /\ requests[k].pc = "returned"
        /\ requests[k].result = JString("fresh sound")

\* ------------------------------------------------------------- manifest
\* The manifest file as fetching it shows it.
Manifest(bucket) == IF bucket.exists THEN bucket.manifest ELSE <<>>

\* The items of a manifest for other Transmissions than t, in order.
OtherItems(manifest, t) ==
    LET Other(i) == i.id # t.id
    IN  SelectSeq(manifest, Other)

\* The items of a manifest that are in the manifest `before`, in order.
ItemsOf(manifest, before) ==
    LET Old(i) == \E k \in DOMAIN before : before[k] = i
    IN  SelectSeq(manifest, Old)

\* C27: when a call of uploadTransmissionToCloud(t) returns without an
\* error the manifest has exactly one item with the id of t, in first
\* place, and the items for other ids that were in the manifest when the
\* function was called are all there, in the order they had.
C27_ManifestTracksUploads ==
    [][\A u \in DOMAIN cloud.uploads :
          (cloud.uploads[u].pc # "done" /\ cloud'.uploads[u].pc = "done")
             => LET t == cloud.uploads[u].t
                    after == Manifest(cloud')
                IN  /\ after # <<>>
                    /\ after[1].id = t.id
                    /\ Cardinality({k \in DOMAIN after : after[k].id = t.id}) = 1
                    /\ ItemsOf(OtherItems(after, t), cloud.uploads[u].before)
                          = OtherItems(cloud.uploads[u].before, t)]_vars

\* The only upload there was has returned without an error: the manifest
\* had three items when it was called and has one now, that of the upload.
C27_Witness ==
    /\ Len(cloud.uploads) = 1
    /\ cloud.uploads[1].pc = "done"
    /\ Len(cloud.uploads[1].before) = MaxCloudIds
    /\ cloud.exists
    /\ cloud.manifest = <<ManifestItem(cloud.uploads[1].t)>>

\* ------------------------------------------------------------- lead details
\* The calls of a stage for lead i in a record of calls.
CallsFor(calls, stage, i) ==
    {k \in DOMAIN calls : calls[k].stage = stage /\ calls[k].lead = i}

\* The detail-text call of lead i returned a value.
TextSucceeded(run, i) ==
    \E k \in CallsFor(run.calls, StLeadText, i) : run.calls[k].result = "value"

\* The sensorySight argument of the generateLeadInspectionImage call the
\* loop is awaiting.
SensorySight(run) == run.textDetails.sensory.sight

StartMessage(stage) ==
    CASE stage = StTitle -> Msg(">> GENERATING STRUCTURAL FRAMEWORK...")
      [] stage = StExposition -> Msg(">> DOWNLOADING EXPOSITION...")
      [] stage = StRoster -> Msg(">> COMPILING LEAD NETWORK...")
      [] stage = StHeader -> Msg(">> RENDERING ENVIRONMENTAL VISUALS...")

\* The counter messages of a log, in order.
Counters(log) ==
    LET IsCounter(e) == e.msg.text = MsgNode(0, 0).text
    IN  SelectSeq(log, IsCounter)

\* The roster size the log announces, 0 before it does.
Announced(log) ==
    IF \E k \in DOMAIN log : log[k].msg.text = MsgScan(0).text
    THEN log[CHOOSE k \in DOMAIN log : log[k].msg.text = MsgScan(0).text].msg.n
    ELSE 0

Banners(log) == {k \in DOMAIN log : log[k].msg = MsgComplete}

\* generateFullTransmission has returned a Transmission, whatever
\* handleGenerate did with it afterwards.
HasReturned(run) ==
    /\ run.mode = "full"
    /\ \/ run.pc \in {"saveFull", "loadFull"}
       \/ run.pc = "aborted" /\ ~run.saveOk

\* C24: in a Full run the callback gets the start message of each stage of
\* the Transmission just before the stage is called, and the counter
\* message [i/N] of lead i just before the detail-text stage of lead i is
\* called; the counter messages are those of the leads 1, 2, ... in order,
\* one each, with N the roster size, whether the leads before failed or
\* not, and all N of them once the run has returned; the completion banner
\* is logged once, as the last message, and is in the log exactly when
\* generateFullTransmission has returned a Transmission.
C24_ProgressMessages ==
    \A r \in RunIds :
        LET run == runs[r]
            log == run.log
            counters == Counters(log)
        IN  run.mode = "full" =>
              /\ \A k \in DOMAIN run.calls :
                    /\ run.calls[k].stage \in {StTitle, StExposition, StRoster, StHeader}
                          => \E j \in DOMAIN log :
                                /\ log[j].msg = StartMessage(run.calls[k].stage)
                                /\ log[j].calls = k - 1
                    /\ run.calls[k].stage = StLeadText
                          => \E j \in DOMAIN log :
                                /\ log[j].msg = MsgNode(run.calls[k].lead, Len(run.leads))
                                /\ log[j].calls = k - 1
              /\ \A j \in DOMAIN counters : counters[j].msg = MsgNode(j, Announced(log))
              /\ run.pc \in {"leadText", "leadImage"} => Len(counters) = run.i
              /\ run.leads # <<>> /\ Announced(log) # 0 => Announced(log) = Len(run.leads)
              /\ Cardinality(Banners(log)) <= 1
              /\ Banners(log) # {} <=> HasReturned(run)
              /\ Banners(log) # {} =>
                    /\ Banners(log) = {Len(log)}
                    /\ Len(counters) = Announced(log)

\* A Full run over a roster of two leads has returned: the detail text of
\* the first lead failed, and the log has the four stage messages, the
\* title message, the scan message, the counters [1/2] and [2/2] and the
\* banner, in the order of the code.
C24_Witness ==
    \E r \in RunIds :
        LET run == runs[r]
        IN  /\ Returned(run)
            /\ Len(run.leads) = 2
            /\ TextFailed(run, 1)
            /\ TextSucceeded(run, 2)
            /\ Len(run.log) = 9
            /\ run.log[1] = LogEntry(StartMessage(StTitle), 0)
            /\ run.log[3] = LogEntry(StartMessage(StExposition), 1)
            /\ run.log[4] = LogEntry(StartMessage(StRoster), 2)
            /\ run.log[5] = LogEntry(StartMessage(StHeader), 3)
            /\ run.log[6] = LogEntry(MsgScan(2), 4)
            /\ run.log[7] = LogEntry(MsgNode(1, 2), 4)
            /\ run.log[8] = LogEntry(MsgNode(2, 2), 5)
            /\ run.log[9] = LogEntry(MsgComplete, 7)

\* ------------------------------------------------------------- termination
\* The ways a run leaves the loading screen.
TransmissionDisplayed == state.status = "viewing" /\ state.transmission # NoTransmission
Interrupted == state.status = "setup" /\ state.error = ErrInterrupted

\* C25: when every request that was issued settles, the loading screen a
\* run of handleGenerate has put up goes away: the Transmission is
\* displayed, or the setup screen is back with the error indicator.
C25_RunLeavesLoading ==
    state.status = "loading" ~> (TransmissionDisplayed \/ Interrupted)

\* A Full run has ended, all of its requests settled and the save done, and
\* its Transmission is displayed.
C25_Witness ==
    /\ nRuns = 1
    /\ isBulkGenerating
    /\ runs[1] = IdleRun
    /\ state.status = "viewing"
    /\ state.transmission # NoTransmission
    /\ Len(state.transmission.leads) = MaxLeads
    /\ state.transmission.id \in DOMAIN db

\* ------------------------------------------------------------- overlapping detail operations
\* The inspection o ends by attaching its Details to the lead.
InspectionCompletes(o) ==
    /\ ops[o].pc = "inspectImage"
    /\ ops'[o].pc = "done"

\* C31: when a detail field of a lead is edited and saved while the image
\* of the lead's inspection is still being generated, the Details the
\* lead has after the inspection has ended still contain what the edit
\* saved (next to the inspection's image).
C31_OverlapKeepsBoth ==
    [][\A o \in OpIds :
          ( /\ InspectionCompletes(o)
            /\ state.transmission # NoTransmission
            /\ DistinctIds(state.transmission)
            /\ DetailsInState(ops[o].lead.id) # NoDetails )
          => /\ DetailsOf(state'.transmission, ops[o].lead.id) # NoDetails
             /\ \A f \in EditTargets :
                   DetailField(DetailsOf(state'.transmission, ops[o].lead.id), f)
                     = DetailField(DetailsInState(ops[o].lead.id), f)]_vars

\* The smell of the second lead was typed and saved while the image of its
\* inspection is in flight: the displayed and the stored lead have the
\* typed smell and no image yet, and the inspection is about to attach the
\* Details it generated.
C31_Witness ==
    /\ edits = 1
    /\ nOps = 1
    /\ ops[1].pc = "inspectImage"
    /\ ops[1].lead = RosterLead(2, FALSE)
    /\ state.transmission # NoTransmission
    /\ DistinctIds(state.transmission)
    /\ state.transmission.leads[2].details
          = SetDetailField(Details(TextDetails(RosterLead(2, FALSE)), Undefined),
                           "smell", EditedText)
    /\ db[state.transmission.id].leads[2] = state.transmission.leads[2]

\* ------------------------------------------------------------- header patch of a closed Transmission
\* Run r, whose Transmission was displayed when the roster arrived, takes a
\* step of the header update (lines 345-354 and what they throw to).
HeaderUpdateStep(r) ==
    /\ runs[r].mode = "interactive"
    /\ runs[r].pc \in {"awaitHeader", "savePatch", "saveNoPatch", "reload"}
    /\ runs'[r] # runs[r]

\* The Transmission of run r is not the displayed one.
NotDisplayed(r) ==
    \/ state.transmission = NoTransmission
    \/ state.transmission.id # runs[r].t.id

\* C32: a step of the header update of an Interactive run, taken when the
\* run's Transmission is not the displayed one (it was closed, or another
\* one was opened), leaves state.transmission and the status as they are.
C32_PatchOnlyWhileDisplayed ==
    [][\A r \in RunIds :
          (HeaderUpdateStep(r) /\ NotDisplayed(r))
            => /\ state'.transmission = state.transmission
               /\ state'.status = state.status]_vars

\* The Transmission of an Interactive run was closed and the older one
\* opened from the archive before the header request has resolved.
C32_Witness ==
    \E r \in RunIds :
        /\ runs[r].mode = "interactive"
        /\ runs[r].pc = "awaitHeader"
        /\ runs[r].header = "pending"
        /\ state.status = "viewing"
        /\ state.transmission = Older
        /\ state.transmission.id # runs[r].t.id

\* ------------------------------------------------------------- overlapping uploads
\* The upload returned without an error, and each of its requests was
\* answered with an ok status.
Uploaded(upload) ==
    /\ upload.pc = "done"
    /\ upload.fetched = "ok"
    /\ upload.posted = "ok"

\* The manifest has an item for the Transmission.
Listed(manifest, t) == \E k \in DOMAIN manifest : manifest[k].id = t.id

\* C33: when two uploads of different Transmissions have both completed,
\* every request of both answered with an ok status, the manifest has an
\* item for each of the two, also when the second upload was started
\* before the first had written the manifest.
C33_BothUploadsListed ==
    \A u, v \in DOMAIN cloud.uploads :
        ( /\ u # v
          /\ cloud.uploads[u].t.id # cloud.uploads[v].t.id
          /\ Uploaded(cloud.uploads[u])
          /\ Uploaded(cloud.uploads[v]) )
        => /\ Listed(Manifest(cloud), cloud.uploads[u].t)
           /\ Listed(Manifest(cloud), cloud.uploads[v].t)

\* Two uploads of different Transmissions, both called while there was no
\* manifest, have completed without a failing request; the manifest has
\* one item.
C33_Witness ==
    /\ Len(cloud.uploads) = 2
    /\ cloud.uploads[1].t.id # cloud.uploads[2].t.id
    /\ Uploaded(cloud.uploads[1])
    /\ Uploaded(cloud.uploads[2])
    /\ cloud.uploads[1].before = <<>>
    /\ cloud.uploads[2].before = <<>>
    /\ Len(Manifest(cloud)) = 1

\* ------------------------------------------------------------- viewing
\* C34: in every reachable state of the application, whatever the order of
\* the steps of generation runs, cloud loads, archive opens, closes, lead
\* operations and header patches, status 'viewing' implies that
\* state.transmission is not null.
C34_ViewingHasTransmission ==
    state.status = "viewing" => state.transmission # NoTransmission

\* A downloaded Transmission is displayed while the run whose Transmission
\* was closed still awaits its header request.
C34_Witness ==
    /\ state.status = "viewing"
    /\ Len(cloud.loads) = 1
    /\ cloud.loads[1].pc = "done"
    /\ state.transmission = cloud.loads[1].t
    /\ \E r \in RunIds : runs[r].pc = "awaitHeader" /\ runs[r].header = "pending"

\* ------------------------------------------------------------- key flag
\* C35: in every state reached by key submissions, key disconnections and
\* page reloads, hasApiKey is true exactly when getApiKey resolves a
\* credential from local storage.
C35_FlagMatchesCredential ==
    hasApiKey <=> (GetApiKey # Undefined)

\* After a reload the flag is off although local storage holds the short
\* key that was submitted, which getApiKey resolves.
C35_Witness ==
    /\ apiKey = ShortKey
    /\ GetApiKey = ShortKey
    /\ ~hasApiKey
    /\ ~showKeyModal
    /\ state.status = "setup"

\* ------------------------------------------------------------- image regeneration without an image
\* The image regeneration o completes in this step with no image: its
\* request threw or was answered without inline data.
NoImageCompletes(o) ==
    /\ RegenCompletes(o)
    /\ ops[o].fieldType = "image"
    /\ ops'[o].calls[Len(ops'[o].calls)].result = Undefined

\* C36: the step in which an image regeneration completes without an image
\* leaves the Details of the lead, the image they have included, as they
\* are, in the displayed Transmission and in the store.
C36_NoImageKeepsDetails ==
    [][\A o \in OpIds :
          (NoImageCompletes(o) /\ state.transmission # NoTransmission
             /\ DistinctIds(state.transmission))
          => /\ DetailsOf(state'.transmission, ops[o].lead.id)
                  = DetailsOf(state.transmission, ops[o].lead.id)
             /\ state.transmission.id \in DOMAIN db
                  => DetailsOf(db'[state.transmission.id], ops[o].lead.id)
                       = DetailsOf(db[state.transmission.id], ops[o].lead.id)]_vars

\* An image regeneration of the first lead has completed without an image
\* after the user saved a typed smell: the lead has its image, and the
\* smell it had when the regeneration was requested.
C36_Witness ==
    \E o \in OpIds :
        /\ ops[o].pc = "regenTyping"
        /\ ops[o].fieldType = "image"
        /\ ops[o].calls[1].result = Undefined
        /\ edits = 1
        /\ ops[o].before # NoDetails
        /\ ops[o].before.sensory.smell = EditedText
        /\ DetailsOf(state.transmission, ops[o].lead.id) = ops[o].lead.details
        /\ ops[o].lead.details.imageUrl = DataUrl(LeadPayload)
        /\ ops[o].lead.details.sensory.smell # EditedText

\* ------------------------------------------------------------- inspecting a detailed lead
\* The card of a lead that has Details is clicked in the viewer: the
\* dossier mounts on a lead with Details, and the step is not the
\* continuation of a suspended handler.
InspectsDetailed ==
    /\ InViewer
    /\ activeLead' # NoActiveLead
    /\ activeLead'.lead.details # NoDetails
    /\ \A o \in OpIds : ops[o].pc # "idle" => ops'[o] = ops[o]

\* C37: handleInspectLead for a lead that has Details shows the lead with
\* the Details the Transmission holds for it, starts no generation (no
\* stage function is called), and leaves the displayed Transmission, the
\* status and the store as they are.
C37_DetailedLeadJustShown ==
    [][InspectsDetailed =>
          /\ \E j \in DOMAIN state.transmission.leads :
                /\ activeLead'.lead = state.transmission.leads[j]
                /\ activeLead'.details = state.transmission.leads[j].details
          /\ ops' = ops
          /\ nOps' = nOps
          /\ state' = state
          /\ db' = db]_vars

\* The dossier shows the first lead with its stored Details; nothing was
\* generated, edited or saved.
C37_Witness ==
    /\ activeLead # NoActiveLead
    /\ activeLead.lead = state.transmission.leads[1]
    /\ activeLead.details = Details(TextDetails(RosterLead(1, FALSE)), DataUrl(LeadPayload))
    /\ nOps = 0
    /\ edits = 0
    /\ ops = [o \in OpIds |-> IdleOp]
    /\ state.status = "viewing"
    /\ db = Put(<<>>, state.transmission)

\* ------------------------------------------------------------- other leads
\* The positions at which the displayed leads differ before and after a
\* step.
ChangedLeads ==
    {k \in DOMAIN state.transmission.leads :
        state'.transmission.leads[k] # state.transmission.leads[k]}

\* C38: a step of the viewer (a lead update, the completion of an
\* inspection, of a field regeneration or of a detail edit) keeps the
\* number and the order of the leads and changes the entry of at most one
\* lead, whatever roster the roster stage returned, also one in which two
\* leads have the same id.
C38_OnlyThatLeadChanges ==
    [][SameTransmission =>
          /\ Len(state'.transmission.leads) = Len(state.transmission.leads)
          /\ Cardinality(ChangedLeads) <= 1]_vars

\* The roster gave the first two leads the same id; the second lead was
\* inspected, and the first lead carries the Details generated for the
\* second in place of its own.
C38_Witness ==
    /\ nOps = 1
    /\ ops[1] = DoneOp
    /\ edits = 0
    /\ state.transmission # NoTransmission
    /\ Len(state.transmission.leads) >= 2
    /\ state.transmission.leads[1].id = state.transmission.leads[2].id
    /\ state.transmission.leads[1].name = RosterLead(1, TRUE).name
    /\ state.transmission.leads[1].details # NoDetails
    /\ state.transmission.leads[1].details.sensory
          = TextDetails(RosterLead(2, TRUE)).sensory

\* ------------------------------------------------------------- local persistence
\* The successful calls of the history for an id, by position.
Saves(id) ==
    {k \in DOMAIN history : history[k].fn = "save" /\ history[k].ok /\ history[k].id = id}
Deletes(id) ==
    {k \in DOMAIN history : history[k].fn = "delete" /\ history[k].ok /\ history[k].id = id}

\* The ids saved and not deleted afterwards, and what was saved last for
\* such an id.
Kept == {id \in DbIds : \E k \in Saves(id) : \A j \in Deletes(id) : j < k}
LastSaved(id) ==
    history[CHOOSE k \in Saves(id) : \A j \in Saves(id) : j <= k].t

\* C39: after any sequence of saveTransmission and deleteTransmission
\* calls getAllTransmissions returns exactly the Transmissions saved and
\* not deleted afterwards, one for each id, each as it was saved last,
\* sorted by id in descending order.
C39_GetAllReturnsKept ==
    LET result == GetAllTransmissions(db)
    IN  /\ {result[k].id : k \in DOMAIN result} = Kept
        /\ Len(result) = Cardinality(Kept)
        /\ \A k \in DOMAIN result : result[k] = LastSaved(result[k].id)
        /\ \A j, k \in DOMAIN result : j < k => result[j].id > result[k].id

\* Transmission 1 was saved, then Transmission 2, then Transmission 1 again
\* with its header image: getAllTransmissions returned 2 before 1, the
\* latter as saved last.  Transmission 2 was deleted since, and the store
\* holds Transmission 1 only.
C39_Witness ==
    /\ Len(history) = 4
    /\ \A k \in DOMAIN history : history[k].ok
    /\ history[1].t = NewTransmission(1, <<>>, Undefined)
    /\ history[2].t = NewTransmission(2, <<>>, Undefined)
    /\ history[3].t = NewTransmission(1, <<>>, DataUrl(HeaderPayload))
    /\ history[4].fn = "delete"
    /\ history[4].id = 2
    /\ localArchives = <<history[2].t, history[3].t>>
    /\ GetAllTransmissions(db) = <<history[3].t>>


====
